---- MODULE Spec2Model ----
(***************************************************************************)
(* playTogether: the GGPO-style rollback engine (RollbackEngine) and the   *)
(* collaborators it is wired to.  The engine is modelled as a record and   *)
(* every method as an operator from engine records to engine records, so   *)
(* that one or several engines can run in one specification.               *)
(***************************************************************************)
EXTENDS Integers, Sequences, FiniteSets, TLC

\* ------------------------------------------------------------------------
\* Program constants (RollbackEngine constructor)
\* ------------------------------------------------------------------------
INPUT_DELAY == 2
MAX_ROLLBACK == 8

\* `null` of this._rollbackTo; no frame number of the model is negative.
Null == 0 - 9

\* ------------------------------------------------------------------------
\* Bounds of the model
\* ------------------------------------------------------------------------
\* ticks an engine runs in the specifications with free ingest
MaxFrame == 3
\* remote inputs an engine ingests in the specifications with free ingest
MaxIngest == 2
\* ticks the engine runs in the specification with a nearly silent peer
MaxFrameLong == 13
\* remote inputs ingested in the specification with a nearly silent peer
MaxIngestLong == 1
\* ticks each engine runs in the two-engine specification
MaxFramePair == 4
\* ticks and ingests of the engine in the specifications whose channel
\* delivers a peer's inputs in any order
MaxFrameNet == 5
MaxIngestNet == 3

\* The match's ordered player list and the input values read or sent.
PlayerIds == <<"p1", "p2">>
PlayerIdSet == {PlayerIds[i] : i \in 1..Len(PlayerIds)}
LocalId == "p1"
RemoteId == "p2"
Inputs == {0, 1}
\* a player id that is not in the match's player list
UnknownId == "px"
AnyIds == PlayerIdSet \cup {UnknownId}

\* ------------------------------------------------------------------------
\* JavaScript Map helpers: a Map is a function whose DOMAIN is its key set
\* ------------------------------------------------------------------------
EmptyMap == [k \in {} |-> 0]
Has(m, k) == k \in DOMAIN m
MapSet(m, k, v) == [x \in (DOMAIN m) \cup {k} |-> IF x = k THEN v ELSE m[x]]
MapDeleteBelow(m, doomed) == [x \in (DOMAIN m) \ doomed |-> m[x]]
Min2(a, b) == IF a < b THEN a ELSE b
Max2(a, b) == IF a > b THEN a ELSE b

\* ------------------------------------------------------------------------
\* Emulator contract: step / saveState / loadState.  The simulator is the
\* free deterministic one: its state is the sequence of input maps it was
\* stepped with, so two states are equal only if they were produced by the
\* same inputs from the same snapshot.
\* ------------------------------------------------------------------------
EmuInit == <<>>
EmuStep(state, inputMap) == Append(state, inputMap)
EmuSaveState(state) == state
EmuLoadState(snap) == snap

\* ------------------------------------------------------------------------
\* RollbackEngine
\* ------------------------------------------------------------------------
NewEngine(local) ==
  [ localPlayerId     |-> local,
    frame             |-> 0,
    confirmedFrame    |-> 0 - 1,
    confirmedInputs   |-> EmptyMap,
    usedInputs        |-> EmptyMap,
    stateHistory      |-> EmptyMap,
    lastReceivedFrame |-> [pid \in PlayerIdSet \ {local} |-> 0 - 1],
    rollbackTo        |-> Null,
    emulator          |-> EmuInit,
    stats             |-> [rollbacks |-> 0, maxRollbackDepth |-> 0,
                           frame |-> 0, confirmedFrame |-> 0 - 1] ]

\* _storeInput(frame, playerId, input), on the confirmedInputs map
StoreInput(ci, frame, playerId, input) ==
  LET fm == IF Has(ci, frame) THEN ci[frame] ELSE EmptyMap
  IN  MapSet(ci, frame, MapSet(fm, playerId, input))

\* the loop of _predict: f counts down from forFrame - 1 to the lower end
RECURSIVE PredictLoop(_, _, _, _)
PredictLoop(ci, playerId, f, lo) ==
  IF f < lo THEN 0
  ELSE IF Has(ci, f) /\ Has(ci[f], playerId) THEN ci[f][playerId]
  ELSE PredictLoop(ci, playerId, f - 1, lo)

\* as _predict(playerId, forFrame), searching back to frame 0
PredictNoWindow(ci, playerId, forFrame) ==
  PredictLoop(ci, playerId, forFrame - 1, 0)

\* _predict(playerId, forFrame): hold-last over 2 * MAX_ROLLBACK frames
Predict(ci, playerId, forFrame) ==
  PredictLoop(ci, playerId, forFrame - 1, Max2(0, forFrame - MAX_ROLLBACK * 2))

\* as _gatherInputs(frame), predicting every player but the first
GatherInputsPredictOnly(ci, frame) ==
  [pid \in PlayerIdSet |->
     IF pid = PlayerIds[1] /\ Has(ci, frame) /\ Has(ci[frame], pid)
       THEN ci[frame][pid]
       ELSE Predict(ci, pid, frame)]

\* _gatherInputs(frame)
GatherInputs(ci, frame) ==
  [pid \in PlayerIdSet |->
     IF Has(ci, frame) /\ Has(ci[frame], pid)
       THEN ci[frame][pid]
       ELSE Predict(ci, pid, frame)]

\* _updateConfirmedFrame()
MinOver(S, start) ==
  IF \E x \in S : x < start
    THEN CHOOSE x \in S : x < start /\ \A y \in S : x <= y
    ELSE start
\* as _updateConfirmedFrame(), the minimum taken over the peers only
UpdateConfirmedFrameNoCap(e) ==
  LET received == {e.lastReceivedFrame[p] : p \in DOMAIN e.lastReceivedFrame}
      minFrame == MinOver(received, CHOOSE m \in received : \A x \in received : x <= m)
  IN  IF minFrame > e.confirmedFrame
        THEN [e EXCEPT !.confirmedFrame = minFrame]
        ELSE e
\* as _updateConfirmedFrame(), without the test that keeps the watermark
UpdateConfirmedFrameNoGuard(e) ==
  [e EXCEPT !.confirmedFrame =
     MinOver({e.lastReceivedFrame[p] : p \in DOMAIN e.lastReceivedFrame},
             e.frame + INPUT_DELAY)]
UpdateConfirmedFrame(e) ==
  LET minFrame == MinOver({e.lastReceivedFrame[p] : p \in DOMAIN e.lastReceivedFrame},
                          e.frame + INPUT_DELAY)
  IN  IF minFrame > e.confirmedFrame
        THEN [e EXCEPT !.confirmedFrame = minFrame]
        ELSE e

\* as _pruneHistory(), keeping from the frame above the watermark
PruneHistoryAboveWatermark(e) ==
  LET keepFrom == Max2(0, e.confirmedFrame + 1)
      doomed   == {f \in DOMAIN e.stateHistory : f < keepFrom}
  IN  [e EXCEPT !.stateHistory    = MapDeleteBelow(@, doomed),
                !.usedInputs      = MapDeleteBelow(@, doomed),
                !.confirmedInputs = MapDeleteBelow(@, doomed)]

\* as _pruneHistory(), leaving confirmed-inputs alone
PruneHistoryKeepsConfirmed(e) ==
  LET keepFrom == Max2(0, e.confirmedFrame - 1)
      doomed   == {f \in DOMAIN e.stateHistory : f < keepFrom}
  IN  [e EXCEPT !.stateHistory    = MapDeleteBelow(@, doomed),
                !.usedInputs      = MapDeleteBelow(@, doomed)]

\* _pruneHistory()
PruneHistory(e) ==
  LET keepFrom == Max2(0, e.confirmedFrame - 1)
      doomed   == {f \in DOMAIN e.stateHistory : f < keepFrom}
  IN  [e EXCEPT !.stateHistory    = MapDeleteBelow(@, doomed),
                !.usedInputs      = MapDeleteBelow(@, doomed),
                !.confirmedInputs = MapDeleteBelow(@, doomed)]

\* one iteration of a frame: snapshot, gather, record, step (tick steps 3-4
\* and the body of the loop of _performRollback)
StepFrame(e, f) ==
  LET inputs == GatherInputs(e.confirmedInputs, f)
  IN  [e EXCEPT !.stateHistory = MapSet(@, f, EmuSaveState(e.emulator)),
                !.usedInputs   = MapSet(@, f, inputs),
                !.emulator     = EmuStep(@, inputs)]

\* the loop of _performRollback: for (f = toFrame; f < this.frame; f++)
RECURSIVE ResimLoop(_, _)
ResimLoop(e, f) ==
  IF f < e.frame THEN ResimLoop(StepFrame(e, f), f + 1) ELSE e

\* as _performRollback(toFrame), re-stepping with the used inputs on record
\* instead of gathering them again
RECURSIVE ReplayLoop(_, _)
ReplayLoop(e, f) ==
  IF f < e.frame
    THEN ReplayLoop([e EXCEPT !.stateHistory = MapSet(@, f, EmuSaveState(e.emulator)),
                              !.emulator = EmuStep(@, e.usedInputs[f])], f + 1)
    ELSE e
PerformRollbackStale(e, toFrame) ==
  LET depth  == e.frame - toFrame
      loaded == [e EXCEPT !.emulator = EmuLoadState(e.stateHistory[toFrame])]
      resim  == ReplayLoop(loaded, toFrame)
  IN  [resim EXCEPT !.stats.rollbacks = @ + 1,
                    !.stats.maxRollbackDepth = Max2(@, depth)]

\* as _performRollback(toFrame), leaving the frame counter at the target
PerformRollbackRewindsFrame(e, toFrame) ==
  LET depth  == e.frame - toFrame
      loaded == [e EXCEPT !.emulator = EmuLoadState(e.stateHistory[toFrame])]
      resim  == ResimLoop(loaded, toFrame)
  IN  [resim EXCEPT !.stats.rollbacks = @ + 1,
                    !.stats.maxRollbackDepth = Max2(@, depth),
                    !.frame = toFrame]

\* as _performRollback(toFrame), counting one rollback per re-stepped frame
PerformRollbackCountsFrames(e, toFrame) ==
  LET depth  == e.frame - toFrame
      loaded == [e EXCEPT !.emulator = EmuLoadState(e.stateHistory[toFrame])]
      resim  == ResimLoop(loaded, toFrame)
  IN  [resim EXCEPT !.stats.rollbacks = @ + depth,
                    !.stats.maxRollbackDepth = Max2(@, depth)]

\* as _performRollback(toFrame), leaving the snapshots of the re-stepped
\* frames as they were
RECURSIVE ResimLoopKeepsSnapshots(_, _)
ResimLoopKeepsSnapshots(e, f) ==
  IF f < e.frame
    THEN LET inputs == GatherInputs(e.confirmedInputs, f)
         IN  ResimLoopKeepsSnapshots(
               [e EXCEPT !.usedInputs = MapSet(@, f, inputs),
                         !.emulator   = EmuStep(@, inputs)], f + 1)
    ELSE e
PerformRollbackKeepsSnapshots(e, toFrame) ==
  LET depth  == e.frame - toFrame
      loaded == [e EXCEPT !.emulator = EmuLoadState(e.stateHistory[toFrame])]
      resim  == ResimLoopKeepsSnapshots(loaded, toFrame)
  IN  [resim EXCEPT !.stats.rollbacks = @ + 1,
                    !.stats.maxRollbackDepth = Max2(@, depth)]

\* as _performRollback(toFrame), pruning the history when it is done
PerformRollbackPrunes(e, toFrame) ==
  LET depth  == e.frame - toFrame
      loaded == [e EXCEPT !.emulator = EmuLoadState(e.stateHistory[toFrame])]
      resim  == PruneHistory(ResimLoop(loaded, toFrame))
  IN  [resim EXCEPT !.stats.rollbacks = @ + 1,
                    !.stats.maxRollbackDepth = Max2(@, depth)]

\* _performRollback(toFrame)
PerformRollback(e, toFrame) ==
  LET depth  == e.frame - toFrame
      loaded == [e EXCEPT !.emulator = EmuLoadState(e.stateHistory[toFrame])]
      resim  == ResimLoop(loaded, toFrame)
  IN  [resim EXCEPT !.stats.rollbacks = @ + 1,
                    !.stats.maxRollbackDepth = Max2(@, depth)]

\* the guard of step 2 of _tick: a rollback is pending and can be executed
RollbackDue(e) ==
  /\ e.rollbackTo # Null
  /\ e.rollbackTo < e.frame
  /\ Has(e.stateHistory, e.rollbackTo)

\* as step 2 of _tick, discarding a target at or below the watermark
ExecutePendingRollbackAboveWatermark(e) ==
  IF e.rollbackTo # Null
    THEN LET rollTo  == e.rollbackTo
             cleared == [e EXCEPT !.rollbackTo = Null]
         IN  IF RollbackDue(e) /\ rollTo > e.confirmedFrame
               THEN PerformRollback(cleared, rollTo) ELSE cleared
    ELSE e

\* as step 2 of _tick, leaving the pending target in place
ExecutePendingRollbackKeepsTarget(e) ==
  IF RollbackDue(e) THEN PerformRollback(e, e.rollbackTo) ELSE e

\* step 2 of _tick
ExecutePendingRollback(e) ==
  IF e.rollbackTo # Null
    THEN LET rollTo  == e.rollbackTo
             cleared == [e EXCEPT !.rollbackTo = Null]
         IN  IF RollbackDue(e) THEN PerformRollback(cleared, rollTo) ELSE cleared
    ELSE e

\* as _tick(), queueing the local input for the current frame
TickQueuesNoDelay(e, localInput) ==
  LET e1 == [e EXCEPT !.confirmedInputs =
                         StoreInput(@, e.frame, e.localPlayerId, localInput)]
      e2 == ExecutePendingRollback(e1)
      e3 == StepFrame(e2, e2.frame)
      e4 == PruneHistory(UpdateConfirmedFrame(e3))
      e5 == [e4 EXCEPT !.stats.frame = e4.frame,
                       !.stats.confirmedFrame = e4.confirmedFrame]
  IN  [e5 EXCEPT !.frame = @ + 1]

\* as the message of _tick, carrying the current frame
SentByTickCurrentFrame(e, localInput) ==
  [frame |-> e.frame, input |-> localInput]

\* the message _tick hands to _sendInput: the queue frame and the value read
SentByTick(e, localInput) ==
  [frame |-> e.frame + INPUT_DELAY, input |-> localInput]

\* _tick() with the value readInput() returned
Tick(e, localInput) ==
  LET queueFrame == e.frame + INPUT_DELAY
      e1 == [e EXCEPT !.confirmedInputs =
                         StoreInput(@, queueFrame, e.localPlayerId, localInput)]
      e2 == ExecutePendingRollback(e1)
      e3 == StepFrame(e2, e2.frame)
      e4 == PruneHistory(UpdateConfirmedFrame(e3))
      e5 == [e4 EXCEPT !.stats.frame = e4.frame,
                       !.stats.confirmedFrame = e4.confirmedFrame]
  IN  [e5 EXCEPT !.frame = @ + 1]

\* as the misprediction test, also counting a past frame whose used inputs
\* are no longer held
MispredictedAnyPastFrame(e, frame, playerId, input) ==
  /\ frame < e.frame
  /\ \/ ~ Has(e.usedInputs, frame)
     \/ ~ Has(e.usedInputs[frame], playerId)
     \/ e.usedInputs[frame][playerId] # input

\* the misprediction test of receiveRemoteInput
Mispredicted(e, frame, playerId, input) ==
  /\ frame < e.frame
  /\ Has(e.usedInputs, frame)
  /\ (~ Has(e.usedInputs[frame], playerId) \/ e.usedInputs[frame][playerId] # input)

\* as receiveRemoteInput, without the misprediction check
ReceiveRemoteInputNoCheck(e, frame, playerId, input) ==
  IF playerId = e.localPlayerId THEN e
  ELSE
    LET e2 == [e EXCEPT !.confirmedInputs = StoreInput(@, frame, playerId, input)]
        last == IF Has(e2.lastReceivedFrame, playerId)
                  THEN e2.lastReceivedFrame[playerId] ELSE 0 - 1
        e3 == IF frame > last
                THEN [e2 EXCEPT !.lastReceivedFrame = MapSet(@, playerId, frame)]
                ELSE e2
    IN  UpdateConfirmedFrame(e3)

\* as receiveRemoteInput, scheduling a rollback for a misprediction at or
\* below the confirmed frame too
ReceiveRemoteInputNoWatermarkTest(e, frame, playerId, input) ==
  IF playerId = e.localPlayerId THEN e
  ELSE
    LET e1 == IF /\ Mispredicted(e, frame, playerId, input)
                 /\ (e.rollbackTo = Null \/ frame < e.rollbackTo)
                THEN [e EXCEPT !.rollbackTo = frame]
                ELSE e
        e2 == [e1 EXCEPT !.confirmedInputs = StoreInput(@, frame, playerId, input)]
        last == IF Has(e2.lastReceivedFrame, playerId)
                  THEN e2.lastReceivedFrame[playerId] ELSE 0 - 1
        e3 == IF frame > last
                THEN [e2 EXCEPT !.lastReceivedFrame = MapSet(@, playerId, frame)]
                ELSE e2
    IN  UpdateConfirmedFrame(e3)

\* as receiveRemoteInput, pruning the history after the watermark update
ReceiveRemoteInputPrunes(e, frame, playerId, input) ==
  IF playerId = e.localPlayerId THEN e
  ELSE
    LET e1 == IF /\ Mispredicted(e, frame, playerId, input)
                 /\ frame > e.confirmedFrame
                 /\ (e.rollbackTo = Null \/ frame < e.rollbackTo)
                THEN [e EXCEPT !.rollbackTo = frame]
                ELSE e
        e2 == [e1 EXCEPT !.confirmedInputs = StoreInput(@, frame, playerId, input)]
        last == IF Has(e2.lastReceivedFrame, playerId)
                  THEN e2.lastReceivedFrame[playerId] ELSE 0 - 1
        e3 == IF frame > last
                THEN [e2 EXCEPT !.lastReceivedFrame = MapSet(@, playerId, frame)]
                ELSE e2
    IN  PruneHistory(UpdateConfirmedFrame(e3))

\* as receiveRemoteInput, executing the rollback it schedules at once
ReceiveRemoteInputRollsBack(e, frame, playerId, input) ==
  IF playerId = e.localPlayerId THEN e
  ELSE
    LET e1 == IF /\ Mispredicted(e, frame, playerId, input)
                 /\ frame > e.confirmedFrame
                 /\ (e.rollbackTo = Null \/ frame < e.rollbackTo)
                THEN [e EXCEPT !.rollbackTo = frame]
                ELSE e
        e2 == [e1 EXCEPT !.confirmedInputs = StoreInput(@, frame, playerId, input)]
        last == IF Has(e2.lastReceivedFrame, playerId)
                  THEN e2.lastReceivedFrame[playerId] ELSE 0 - 1
        e3 == IF frame > last
                THEN [e2 EXCEPT !.lastReceivedFrame = MapSet(@, playerId, frame)]
                ELSE e2
    IN  ExecutePendingRollback(UpdateConfirmedFrame(e3))

\* receiveRemoteInput(frame, playerId, input)
ReceiveRemoteInput(e, frame, playerId, input) ==
  IF playerId = e.localPlayerId THEN e
  ELSE
    LET e1 == IF /\ Mispredicted(e, frame, playerId, input)
                 /\ frame > e.confirmedFrame
                 /\ (e.rollbackTo = Null \/ frame < e.rollbackTo)
                THEN [e EXCEPT !.rollbackTo = frame]
                ELSE e
        e2 == [e1 EXCEPT !.confirmedInputs = StoreInput(@, frame, playerId, input)]
        last == IF Has(e2.lastReceivedFrame, playerId)
                  THEN e2.lastReceivedFrame[playerId] ELSE 0 - 1
        e3 == IF frame > last
                THEN [e2 EXCEPT !.lastReceivedFrame = MapSet(@, playerId, frame)]
                ELSE e2
    IN  UpdateConfirmedFrame(e3)

\* ------------------------------------------------------------------------
\* State
\* ------------------------------------------------------------------------
VARIABLES
  eng,        \* eng[id]: the RollbackEngine of participant id
  outbox,     \* outbox[id]: the input messages id's engine handed to _sendInput
  delivered,  \* delivered[id]: the <<frame, playerId, input>> the channel gave id
  obs,        \* obs[id]: what an observer of id's engine has recorded
  audio,      \* audio[id]: the mute flag of id's simulator and the step calls of
              \*            the last tick
  loop,       \* loop[id]: the frame pacer of id's engine
  net,        \* net[id]: id's NetworkClient
  relay,      \* the relay server: rooms, wsToPlayer and the sockets
  cli,        \* cli[ws]: the application behind connection ws
  rom,        \* the server's ROM cache and its clock
  demo,       \* two DemoGame simulators and the objects they refer to
  ring,       \* the SNESAudioProcessor of the audio worklet
  app         \* the application of one client: its engine and its ROM loads

vars == <<eng, outbox, delivered, obs, audio, loop, net, relay, cli, rom, demo, ring, app>>

\* the state outside the engines and their simulators
aux == <<loop, net, relay, cli, rom, demo, ring, app>>

\* the state of the participants' engines, pacers and network clients, and
\* what else is outside the relay's rooms
engineVars == <<eng, outbox, delivered, obs, audio, loop, net, rom, demo, ring, app>>

\* ------------------------------------------------------------------------
\* The ROM proxy's cache
\* ------------------------------------------------------------------------
ROM_CACHE_MAX_BYTES == 64 * 1024 * 1024
\* the largest file the proxy hands to romCacheSet
ROM_MAX_BYTES == 16 * 1024 * 1024

\* romCache is a Map: cache lists its entries in insertion order. now is the
\* value of Date.now(); used and ops number the reads and insertions in the
\* order in which they happened; fresh counts the urls that were inserted.
NewRom == [cache |-> <<>>, total |-> 0, now |-> 0, ops |-> 0, fresh |-> 1]

CachedUrls(c) == {c.cache[i].url : i \in 1..Len(c.cache)}
IndexOfUrl(c, url) == CHOOSE i \in 1..Len(c.cache) : c.cache[i].url = url

\* function romCacheGet(url), for a url that is cached
RomCacheGet(c, url) ==
  IF url \notin CachedUrls(c) THEN c
  ELSE [c EXCEPT !.cache[IndexOfUrl(c, url)].ts = c.now,
                 !.cache[IndexOfUrl(c, url)].used = c.ops + 1,
                 !.ops = @ + 1]

\* the for loop of romCacheSet: the first entry, in the Map's order, whose
\* ts is below the ts of all entries before it and not above any later one
OldestIndex(cache) ==
  CHOOSE i \in 1..Len(cache) :
    /\ \A j \in 1..Len(cache) : cache[i].ts <= cache[j].ts
    /\ \A j \in 1..(i - 1) : cache[j].ts > cache[i].ts

RemoveAt(q, i) == SubSeq(q, 1, i - 1) \o SubSeq(q, i + 1, Len(q))

\* the while loop of romCacheSet
RECURSIVE EvictLoop(_, _)
EvictLoop(c, len) ==
  IF c.total + len > ROM_CACHE_MAX_BYTES /\ c.cache # <<>>
  THEN LET i == OldestIndex(c.cache)
       IN  EvictLoop([c EXCEPT !.cache = RemoveAt(@, i),
                               !.total = @ - c.cache[i].size], len)
  ELSE c

\* function romCacheSet(url, buf), len = buf.length; Map.set of a key that
\* is present replaces the value and keeps the key's place
RomCacheSet(c, url, len) ==
  IF len > ROM_CACHE_MAX_BYTES THEN c
  ELSE LET e     == EvictLoop(c, len)
           entry == [url |-> url, size |-> len, ts |-> c.now, used |-> c.ops + 1]
       IN  [e EXCEPT !.cache = IF url \in CachedUrls(e)
                                 THEN [@ EXCEPT ![IndexOfUrl(e, url)] = entry]
                                 ELSE Append(@, entry),
                     !.total = @ + len,
                     !.ops = @ + 1]

\* ------------------------------------------------------------------------
\* DemoGame, the built-in simulator
\* ------------------------------------------------------------------------
\* Lengths and speeds are in tenths of a pixel, the resolution of BALL_ACCEL
\* and of the vertical speeds of _resetBall. The vertical speed after a
\* paddle hit, hitRel * 7, is rounded down to that resolution.
DemoUnit == 10
W == 800 * DemoUnit
H == 500 * DemoUnit
PADDLE_W == 12 * DemoUnit
PADDLE_H == 90 * DemoUnit
PADDLE_SPEED == 7 * DemoUnit
PADDLE_LEFT_X == 40 * DemoUnit
PADDLE_RIGHT_X == W - 40 * DemoUnit - PADDLE_W
BALL_R == 9 * DemoUnit
BALL_INIT_VX == 5 * DemoUnit
BALL_INIT_VY == 3 * DemoUnit
BALL_MAX_SPEED == 15 * DemoUnit
BALL_ACCEL == 4
WIN_SCORE == 7
UP == 1
DOWN == 2

Abs(x) == IF x < 0 THEN 0 - x ELSE x
\* input & bit, for a bit that is a power of two
HasBit(input, bit) == (input \div bit) % 2 = 1

\* A 32-bit unsigned number is the pair of its upper and lower 16 bits.
\* (Math.imul(1664525, x) + 1013904223) >>> 0, with 1664525 = 25 * 2^16 +
\* 26125 and 1013904223 = 15470 * 2^16 + 62303
Lcg(x) ==
  LET low == 26125 * x[2] + 62303
      mid == 25 * x[2] + 26125 * x[1] + 15470 + (low \div 65536)
  IN  <<mid % 65536, low % 65536>>

\* The objects of the page are the cells of a heap, and a reference is the
\* index of a cell. A game state is six objects: the ball, the two paddles,
\* the paddles array, the scores array and the state object that refers to
\* them.
\* _initialState(): the new state object is the last cell
InitialState(h, seed) ==
  LET n == Len(h)
  IN  h \o << [x |-> W \div 2, y |-> H \div 2, vx |-> BALL_INIT_VX, vy |-> BALL_INIT_VY],
              [y |-> H \div 2 - PADDLE_H \div 2],
              [y |-> H \div 2 - PADDLE_H \div 2],
              <<n + 2, n + 3>>,
              <<0, 0>>,
              [frame |-> 0, rngState |-> seed, ball |-> n + 1, paddles |-> n + 4,
               scores |-> n + 5, winner |-> Null, hitFlash |-> 0] >>

\* as saveState, with the snapshot referring to the state's own ball object
SaveStateSharesBall(h, st) ==
  LET s == h[st]
      n == Len(h)
  IN  h \o << h[h[s.paddles][1]],
              h[h[s.paddles][2]],
              <<n + 1, n + 2>>,
              h[s.scores],
              [frame |-> s.frame, rngState |-> s.rngState, ball |-> s.ball,
               paddles |-> n + 3, scores |-> n + 4, winner |-> s.winner,
               hitFlash |-> s.hitFlash] >>

\* saveState(): the snapshot is the last cell of the heap that is returned
SaveState(h, st) ==
  LET s == h[st]
      n == Len(h)
  IN  h \o << h[s.ball],
              h[h[s.paddles][1]],
              h[h[s.paddles][2]],
              <<n + 2, n + 3>>,
              h[s.scores],
              [frame |-> s.frame, rngState |-> s.rngState, ball |-> n + 1,
               paddles |-> n + 4, scores |-> n + 5, winner |-> s.winner,
               hitFlash |-> s.hitFlash] >>

\* as loadState, with the new state referring to the snapshot's ball object
LoadStateSharesBall(h, snap) ==
  LET s == h[snap]
      n == Len(h)
  IN  h \o << h[h[s.paddles][1]],
              h[h[s.paddles][2]],
              <<n + 1, n + 2>>,
              h[s.scores],
              [frame |-> s.frame, rngState |-> s.rngState, ball |-> s.ball,
               paddles |-> n + 3, scores |-> n + 4, winner |-> s.winner,
               hitFlash |-> s.hitFlash] >>

\* loadState(snap): this.state is the last cell of the heap that is returned
LoadState(h, snap) ==
  LET s == h[snap]
      n == Len(h)
  IN  h \o << h[s.ball],
              h[h[s.paddles][1]],
              h[h[s.paddles][2]],
              <<n + 2, n + 3>>,
              h[s.scores],
              [frame |-> s.frame, rngState |-> s.rngState, ball |-> n + 1,
               paddles |-> n + 4, scores |-> n + 5, winner |-> s.winner,
               hitFlash |-> s.hitFlash] >>

\* what a state object or a snapshot holds, references followed
SnapValue(h, st) ==
  [frame |-> h[st].frame, rngState |-> h[st].rngState, ball |-> h[h[st].ball],
   paddles |-> <<h[h[h[st].paddles][1]], h[h[h[st].paddles][2]]>>,
   scores |-> h[h[st].scores], winner |-> h[st].winner, hitFlash |-> h[st].hitFlash]

\* the paddle loop of step for one paddle
MovePaddle(y, input) ==
  LET up == IF HasBit(input, UP) THEN Max2(0, y - PADDLE_SPEED) ELSE y
  IN  IF HasBit(input, DOWN) THEN Min2(H - PADDLE_H, up + PADDLE_SPEED) ELSE up

\* hitRel * 7
HitVy(ballY, padY) ==
  (7 * DemoUnit * (ballY - (padY + PADDLE_H \div 2))) \div (PADDLE_H \div 2)

\* the ball after the wall test
WallBounce(b) ==
  IF b.y - BALL_R <= 0 THEN [b EXCEPT !.y = BALL_R, !.vy = Abs(b.vy)]
  ELSE IF b.y + BALL_R >= H THEN [b EXCEPT !.y = H - BALL_R, !.vy = 0 - Abs(b.vy)]
  ELSE b

LeftHit(b, padY) ==
  /\ b.vx < 0
  /\ b.x - BALL_R <= PADDLE_LEFT_X + PADDLE_W
  /\ b.x + BALL_R >= PADDLE_LEFT_X
  /\ b.y + BALL_R >= padY
  /\ b.y - BALL_R <= padY + PADDLE_H

RightHit(b, padY) ==
  /\ b.vx > 0
  /\ b.x + BALL_R >= PADDLE_RIGHT_X
  /\ b.x - BALL_R <= PADDLE_RIGHT_X + PADDLE_W
  /\ b.y + BALL_R >= padY
  /\ b.y - BALL_R <= padY + PADDLE_H

\* step(inputMap) on the state object st; inp[i] is the input of playerIds[i].
\* The objects of the state are changed in place; _resetBall makes a new
\* ball object.
DemoStep(h, st, inp) ==
  LET s == h[st]
  IN  IF s.winner # Null THEN h
      ELSE
        LET pads  == h[s.paddles]
            p0y   == MovePaddle(h[pads[1]].y, inp[1])
            p1y   == MovePaddle(h[pads[2]].y, inp[2])
            b0    == h[s.ball]
            b1    == WallBounce([b0 EXCEPT !.x = b0.x + b0.vx, !.y = b0.y + b0.vy])
            left  == LeftHit(b1, p0y)
            b2    == IF left
                     THEN [b1 EXCEPT !.vx = Min2(Abs(b1.vx) + BALL_ACCEL, BALL_MAX_SPEED),
                                     !.vy = HitVy(b1.y, p0y),
                                     !.x  = PADDLE_LEFT_X + PADDLE_W + BALL_R + DemoUnit]
                     ELSE b1
            right == RightHit(b2, p1y)
            b3    == IF right
                     THEN [b2 EXCEPT !.vx = 0 - Min2(Abs(b2.vx) + BALL_ACCEL, BALL_MAX_SPEED),
                                     !.vy = HitVy(b2.y, p1y),
                                     !.x  = PADDLE_RIGHT_X - BALL_R - DemoUnit]
                     ELSE b2
            flash == IF left \/ right THEN 4
                     ELSE IF s.hitFlash > 0 THEN s.hitFlash - 1 ELSE s.hitFlash
            lastScorer == IF b3.x + BALL_R < 0 THEN 1
                          ELSE IF b3.x - BALL_R > W THEN 0 ELSE Null
            sc0   == h[s.scores]
            sc    == IF lastScorer = Null THEN sc0
                     ELSE [sc0 EXCEPT ![lastScorer + 1] = @ + 1]
            rng   == IF lastScorer = Null THEN s.rngState ELSE Lcg(s.rngState)
            won   == IF sc[1] >= WIN_SCORE THEN 0
                     ELSE IF sc[2] >= WIN_SCORE THEN 1 ELSE Null
            h1    == [h EXCEPT ![pads[1]].y = p0y,
                               ![pads[2]].y = p1y,
                               ![s.ball] = b3,
                               ![s.scores] = sc,
                               ![st] = [s EXCEPT !.frame = @ + 1, !.hitFlash = flash,
                                                 !.rngState = rng, !.winner = won]]
        IN  IF lastScorer = Null THEN h1
            ELSE [Append(h1, [x  |-> W \div 2, y |-> H \div 2,
                              vx |-> BALL_INIT_VX * (IF lastScorer = 0 THEN 0 - 1 ELSE 1),
                              vy |-> ((rng[1] % 5) - 2) * 12])
                    EXCEPT ![st].ball = Len(h1) + 1]

\* Two games made with the same seed and stepped alike: a is the state
\* object of the first, b of the second. kept is a snapshot the page holds,
\* keptValue what it held when it was made; trips counts the saves that
\* were followed by a load, saves the snapshots, steps the steps with free
\* inputs and warm the steps before them, in which the input held was held.
Seed == <<0, 1>>
NewDemo ==
  LET h1 == InitialState(<<>>, Seed)
      h2 == InitialState(h1, Seed)
  IN  [heap |-> h2, a |-> Len(h1), b |-> Len(h2), kept |-> Null, keptValue |-> Null,
       trips |-> 0, steps |-> 0, saves |-> 0, warm |-> 0, held |-> <<>>]

\* ------------------------------------------------------------------------
\* The relay server
\* ------------------------------------------------------------------------
\* the WebSocket connections
Conns == {"w1", "w2", "w3", "w4", "w5"}
\* the largest number of players of a room
MAX_PLAYERS == 4

\* a message on a connection; the fields a message type does not carry are
\* Null (reason: ""). tag stands for the match a game-started message starts
\* and, on an input message, for the match of the engine that sent it.
Msg(type, roomId, playerId, frame, input, tag, reason) ==
  [type |-> type, roomId |-> roomId, playerId |-> playerId, frame |-> frame,
   input |-> input, tag |-> tag, reason |-> reason]
Plain(type) == Msg(type, Null, Null, Null, Null, Null, "")
ErrorMsg(reason) == Msg("error", Null, Null, Null, Null, Null, reason)

\* a connected socket with nothing in flight: up is what the client has sent
\* and the server has not handled yet, down what the server has sent and the
\* client has not handled yet
NewSocket == [open |-> TRUE, up |-> <<>>, down |-> <<>>]

\* rooms and wsToPlayer are empty; genId is a source of fresh ids
NewRelay ==
  [ rooms      |-> EmptyMap,
    wsToPlayer |-> EmptyMap,
    nextId     |-> 1,
    sock       |-> [w \in Conns |-> NewSocket] ]

\* the application of a connection: the match of its running engine (0: no
\* engine), the inputs that engine has sent, the lobby actions and the host
\* commands it has sent, and, for every input handed to a running engine,
\* the engine's match and the match of the engine that sent it
NewClient == [match |-> 0, sent |-> 0, acted |-> 0, cmds |-> 0, got |-> {}]

\* new Room(id, hostId); match counts the games started in the room
NewRoom(id, hostId) ==
  [id |-> id, hostId |-> hostId, players |-> <<>>, gameStarted |-> FALSE,
   playerOrder |-> <<>>, match |-> 0]

MapDelete(m, k) == [x \in (DOMAIN m) \ {k} |-> m[x]]
PlayerIdsOf(room) == {room.players[i].id : i \in 1..Len(room.players)}
PlayerKeys(room) == [i \in 1..Len(room.players) |-> room.players[i].id]
RECURSIVE SeqWithout(_, _)
SeqWithout(q, bad) ==
  IF q = <<>> THEN <<>>
  ELSE IF bad[Head(q)] THEN SeqWithout(Tail(q), bad)
       ELSE <<Head(q)>> \o SeqWithout(Tail(q), bad)

\* ws.send(JSON.stringify(msg)) on the server's end of connection ws
WsSend(r, ws, msg) == [r EXCEPT !.sock[ws].down = Append(@, msg)]

\* Room.send
RoomSend(r, ws, msg) == IF r.sock[ws].open THEN WsSend(r, ws, msg) ELSE r

\* as Room.broadcast, excluding nobody
RECURSIVE BroadcastToAll(_, _, _, _)
BroadcastToAll(r, players, msg, excludeId) ==
  IF players = <<>> THEN r
  ELSE BroadcastToAll(RoomSend(r, Head(players).ws, msg), Tail(players), msg, excludeId)

\* Room.broadcast over the room's players in insertion order
RECURSIVE Broadcast(_, _, _, _)
Broadcast(r, players, msg, excludeId) ==
  IF players = <<>> THEN r
  ELSE LET sent == IF Head(players).id # excludeId
                     THEN RoomSend(r, Head(players).ws, msg) ELSE r
       IN  Broadcast(sent, Tail(players), msg, excludeId)

\* Room.addPlayer
AddPlayer(r, roomId, playerId, ws) ==
  [r EXCEPT !.rooms[roomId].players = Append(@, [id |-> playerId, ws |-> ws]),
            !.wsToPlayer = MapSet(@, ws, [playerId |-> playerId, roomId |-> roomId])]

\* Room.removePlayer
RemovePlayer(r, roomId, playerId) ==
  LET room  == r.rooms[roomId]
      entry == {room.players[i].ws : i \in {j \in 1..Len(room.players) :
                                               room.players[j].id = playerId}}
  IN  [r EXCEPT !.wsToPlayer = [w \in (DOMAIN @) \ entry |-> @[w]],
                !.rooms[roomId].players =
                   SeqWithout(@, [i \in {room.players[j] : j \in 1..Len(room.players)}
                                    |-> i.id = playerId]),
                !.rooms[roomId].playerOrder =
                   SeqWithout(@, [i \in PlayerIdsOf(room) |-> i = playerId])]

\* the connection's player and room, as the message handler looks them up
CtxPlayer(r, ws) == IF Has(r.wsToPlayer, ws) THEN r.wsToPlayer[ws].playerId ELSE Null
CtxRoom(r, ws) ==
  IF Has(r.wsToPlayer, ws) /\ Has(r.rooms, r.wsToPlayer[ws].roomId)
    THEN r.wsToPlayer[ws].roomId ELSE Null

\* msg.frame | 0 and msg.input | 0: on the integers a client's engine sends,
\* which are within 32 bits, the value itself
ToInt32(x) == x

\* case 'create-room'
HandleCreateRoom(r, ws, msg) ==
  LET newPlayerId == r.nextId
      newRoomId   == r.nextId + 1
      r1 == [r EXCEPT !.nextId = @ + 2,
                      !.rooms = MapSet(@, newRoomId, NewRoom(newRoomId, newPlayerId))]
      r2 == AddPlayer(r1, newRoomId, newPlayerId, ws)
  IN  WsSend(r2, ws, Msg("room-created", newRoomId, newPlayerId, Null, Null, Null, ""))

\* as case 'join-room', without the test for a full room
HandleJoinRoomNoFullTest(r, ws, msg) ==
  IF ~ Has(r.rooms, msg.roomId)
    THEN WsSend(r, ws, ErrorMsg("Room not found."))
  ELSE IF r.rooms[msg.roomId].gameStarted
    THEN WsSend(r, ws, ErrorMsg("A game is already in progress."))
  ELSE
    LET newPlayerId == r.nextId
        r1 == AddPlayer([r EXCEPT !.nextId = @ + 1], msg.roomId, newPlayerId, ws)
        r2 == WsSend(r1, ws, Msg("room-joined", msg.roomId, newPlayerId, Null, Null, Null, ""))
    IN  Broadcast(r2, r2.rooms[msg.roomId].players,
                  Msg("player-joined", Null, newPlayerId, Null, Null, Null, ""),
                  newPlayerId)

\* as case 'join-room', without the test for a game in progress
HandleJoinRoomNoStartedTest(r, ws, msg) ==
  IF ~ Has(r.rooms, msg.roomId)
    THEN WsSend(r, ws, ErrorMsg("Room not found."))
  ELSE IF Len(r.rooms[msg.roomId].players) >= MAX_PLAYERS
    THEN WsSend(r, ws, ErrorMsg("Room is full (max 4 players)."))
  ELSE
    LET newPlayerId == r.nextId
        r1 == AddPlayer([r EXCEPT !.nextId = @ + 1], msg.roomId, newPlayerId, ws)
        r2 == WsSend(r1, ws, Msg("room-joined", msg.roomId, newPlayerId, Null, Null, Null, ""))
    IN  Broadcast(r2, r2.rooms[msg.roomId].players,
                  Msg("player-joined", Null, newPlayerId, Null, Null, Null, ""),
                  newPlayerId)

\* case 'join-room'
HandleJoinRoom(r, ws, msg) ==
  IF ~ Has(r.rooms, msg.roomId)
    THEN WsSend(r, ws, ErrorMsg("Room not found."))
  ELSE IF Len(r.rooms[msg.roomId].players) >= MAX_PLAYERS
    THEN WsSend(r, ws, ErrorMsg("Room is full (max 4 players)."))
  ELSE IF r.rooms[msg.roomId].gameStarted
    THEN WsSend(r, ws, ErrorMsg("A game is already in progress."))
  ELSE
    LET newPlayerId == r.nextId
        r1 == AddPlayer([r EXCEPT !.nextId = @ + 1], msg.roomId, newPlayerId, ws)
        r2 == WsSend(r1, ws, Msg("room-joined", msg.roomId, newPlayerId, Null, Null, Null, ""))
    IN  Broadcast(r2, r2.rooms[msg.roomId].players,
                  Msg("player-joined", Null, newPlayerId, Null, Null, Null, ""),
                  newPlayerId)

\* case 'start-game'
HandleStartGame(r, ws, msg) ==
  LET roomId == CtxRoom(r, ws)
  IN  IF roomId = Null \/ r.rooms[roomId].hostId # CtxPlayer(r, ws) THEN r
      ELSE IF r.rooms[roomId].gameStarted THEN r
      ELSE LET r1 == [r EXCEPT !.rooms[roomId].gameStarted = TRUE,
                               !.rooms[roomId].playerOrder = PlayerKeys(r.rooms[roomId]),
                               !.rooms[roomId].match = @ + 1]
           IN  Broadcast(r1, r1.rooms[roomId].players,
                         Msg("game-started", Null, Null, Null, Null,
                             r1.rooms[roomId].match, ""), Null)

\* case 'input'
HandleInput(r, ws, msg) ==
  LET roomId   == CtxRoom(r, ws)
      playerId == CtxPlayer(r, ws)
  IN  IF roomId = Null \/ playerId = Null THEN r
      ELSE Broadcast(r, r.rooms[roomId].players,
                     Msg("input", Null, playerId, ToInt32(msg.frame),
                         ToInt32(msg.input), msg.tag, ""), playerId)

\* case 'rematch'
HandleRematch(r, ws, msg) ==
  LET roomId == CtxRoom(r, ws)
  IN  IF roomId = Null \/ r.rooms[roomId].hostId # CtxPlayer(r, ws) THEN r
      ELSE LET r1 == [r EXCEPT !.rooms[roomId].gameStarted = FALSE,
                               !.rooms[roomId].playerOrder = <<>>]
           IN  Broadcast(r1, r1.rooms[roomId].players, Plain("rematch"), Null)

\* ws.on('message'): the switch on msg.type
HandleMessage(r, ws, msg) ==
  CASE msg.type = "create-room" -> HandleCreateRoom(r, ws, msg)
    [] msg.type = "join-room"   -> HandleJoinRoom(r, ws, msg)
    [] msg.type = "start-game"  -> HandleStartGame(r, ws, msg)
    [] msg.type = "input"       -> HandleInput(r, ws, msg)
    [] msg.type = "rematch"     -> HandleRematch(r, ws, msg)
    [] OTHER                    -> r

\* ws.on('close'), the socket having left the OPEN state; what was in flight
\* on the connection is lost
HandleClose(r, ws) ==
  LET closed == [r EXCEPT !.sock[ws] = [open |-> FALSE, up |-> <<>>, down |-> <<>>]]
  IN  IF ~ Has(closed.wsToPlayer, ws) THEN closed
      ELSE
        LET pId == closed.wsToPlayer[ws].playerId
            rId == closed.wsToPlayer[ws].roomId
        IN  IF ~ Has(closed.rooms, rId) THEN closed
            ELSE
              LET r1 == RemovePlayer(closed, rId, pId)
              IN  IF r1.rooms[rId].players = <<>>
                    THEN [r1 EXCEPT !.rooms = MapDelete(@, rId)]
                  ELSE
                    LET r2 == IF r1.rooms[rId].hostId = pId
                                THEN LET r3 == [r1 EXCEPT !.rooms[rId].hostId =
                                                             r1.rooms[rId].players[1].id]
                                     IN  Broadcast(r3, r3.rooms[rId].players,
                                                   Msg("host-changed", Null,
                                                       r3.rooms[rId].hostId,
                                                       Null, Null, Null, ""), Null)
                                ELSE r1
                    IN  Broadcast(r2, r2.rooms[rId].players,
                                  Msg("player-left", Null, pId, Null, Null, Null, ""),
                                  Null)

\* Time is counted in thirds of a millisecond, so that the frame period
\* 1000 / TARGET_FPS ms is a whole number.
TimeUnitsPerMs == 3
TARGET_FPS == 60
FRAME_MS == (1000 * TimeUnitsPerMs) \div TARGET_FPS
\* the cap of _loop on the time between two callbacks (100 ms)
DELTA_CAP == 100 * TimeUnitsPerMs

\* the simulator's mute flag (_audioMuted) and the step calls the last tick
\* made
NewAudio == [muted |-> FALSE, steps |-> <<>>]

\* the pacer fields of the constructor, the animation-frame callbacks the
\* browser holds for this engine, the next handle requestAnimationFrame
\* returns, the accumulator when the last callback entered its tick loop, and
\* the number of callbacks that returned at the _running test
NewLoop ==
  [ running     |-> FALSE,
    rafId       |-> Null,
    scheduled   |-> {},
    nextHandle  |-> 1,
    accumulator |-> 0,
    accAtLoop   |-> 0,
    skipped     |-> 0 ]

\* NetworkClient once the socket is open
NewNet == [connected |-> TRUE, queue |-> <<>>]

\* ------------------------------------------------------------------------
\* SNESAudioProcessor: the ring buffer of the audio worklet.  The ring of
\* the sources holds 4096 pairs (snes-audio-worklet.js) or 8192 pairs (the
\* version with dynamic rate control); here it holds RingSize pairs, a power
\* of two as well.  A sample pair is the number of its arrival.
\* ------------------------------------------------------------------------
RingBits == 3
RingSize == 2 ^ RingBits
\* x & this._mask, for a mask of RingSize - 1
Mask(x) == x % RingSize
\* this._target = this._size >> 2
RingTarget == RingSize \div 4
\* positions and rates of the resampler are counted in 1 / RateUnit pairs
RateUnit == 20 * RingSize

\* the processor before its constructor has run
NoRing == [made |-> FALSE, drc |-> FALSE, wr |-> 0, rd |-> 0, rdF |-> 0,
           buf |-> <<>>, written |-> 0, ops |-> 0, last |-> "",
           lastN |-> 0, out |-> <<>>]

\* constructor(); drc tells the version with dynamic rate control
NewRing(drc) ==
  [NoRing EXCEPT !.made = TRUE, !.drc = drc,
                 !.buf = [i \in 1..RingSize |-> 0]]

\* (this._wr - this._rd) & this._mask
Avail(r) == Mask(r.wr - r.rd)

\* the loop of port.onmessage: for (i = 0; i < n; i++) write pair i
RECURSIVE WriteLoop(_, _, _)
WriteLoop(r, i, n) ==
  IF i < n
    THEN WriteLoop([r EXCEPT !.buf[r.wr + 1] = r.written + 1,
                             !.written = @ + 1,
                             !.wr = Mask(r.wr + 1)], i + 1, n)
    ELSE r

\* as port.onmessage, without the overflow guard
PortOnMessageNoGuard(r, len) ==
  LET n == len \div 2
  IN  [WriteLoop(r, 0, n) EXCEPT !.ops = @ + 1, !.last = "message",
                                 !.lastN = n]

\* port.onmessage for data.samples of length len
PortOnMessage(r, len) ==
  LET n     == len \div 2
      avail == Avail(r)
      space == RingSize - 1 - avail
      r1    == IF n > space
                 THEN [r EXCEPT !.rd  = Mask(r.rd + (n - space)),
                                !.rdF = IF r.drc THEN 0 ELSE @]
                 ELSE r
  IN  [WriteLoop(r1, 0, n) EXCEPT !.ops = @ + 1, !.last = "message",
                                  !.lastN = n]

\* process() of snes-audio-worklet.js for an output of n samples
ProcessPlain(r, n) ==
  LET avail == Avail(r)
      rd    == Min2(n, avail)
  IN  [r EXCEPT !.out = [i \in 1..n |->
                           IF i <= rd THEN r.buf[Mask(r.rd + i - 1) + 1] ELSE 0],
                !.rd  = Mask(r.rd + rd),
                !.ops = @ + 1, !.last = "process"]

\* the rate of the proportional controller, in 1 / RateUnit:
\* max(0.95, min(1.05, 1.0 + 0.1 * (avail - target) / size))
DrcRate(avail) ==
  Max2(19 * RingSize, Min2(21 * RingSize,
                           20 * RingSize + 2 * (avail - RingTarget)))

\* process() of the version with dynamic rate control for an output of n
\* samples; an output sample is the interpolated value in 1 / RateUnit, or
\* 0 for silence
ProcessDrc(r, n) ==
  LET avail == Avail(r)
      rate  == DrcRate(avail)
      pos(i) == r.rdF + (i - 1) * rate
      consumed == (r.rdF + n * rate) \div RateUnit
  IN  IF avail = 0
        THEN [r EXCEPT !.out = [i \in 1..n |-> 0],
                       !.ops = @ + 1, !.last = "process"]
        ELSE [r EXCEPT
                !.out = [i \in 1..n |->
                           LET fl == pos(i) \div RateUnit
                               i0 == Mask(r.rd + fl)
                               i1 == Mask(r.rd + Min2(fl + 1, avail - 1))
                           IN  IF fl >= avail THEN 0
                               ELSE r.buf[i0 + 1] * RateUnit
                                    + (pos(i) % RateUnit)
                                      * (r.buf[i1 + 1] - r.buf[i0 + 1])],
                !.rdF = (r.rdF + n * rate) % RateUnit,
                !.rd  = Mask(r.rd + Min2(consumed, avail)),
                !.ops = @ + 1, !.last = "process"]

\* process(_inputs, outputs)
Process(r, n) == IF r.drc THEN ProcessDrc(r, n) ELSE ProcessPlain(r, n)

\* ------------------------------------------------------------------------
\* The application of one client (app.js): the engine variable, the ROM
\* loads that are under way, and the input messages of the running match
\* ------------------------------------------------------------------------
NewApp == [engine |-> <<>>, loads |-> {}, match |-> 0, running |-> FALSE,
           received |-> <<>>]

\* stopGame(): engine = null
StopGame(a) == [a EXCEPT !.engine = <<>>]

\* _startEngine(playerOrder), reached from the start of match m
StartEngine(a, m) == [a EXCEPT !.engine = << [match |-> m, passed |-> <<>>] >>]

\* startPongGame(playerOrder, seed)
StartPongGame(a, m) == StartEngine(StopGame(a), m)

\* startNESGame(playerOrder, seed, romUrl) up to `await game.loadROM(romUrl)`
StartNESGame(a, m) == [StopGame(a) EXCEPT !.loads = @ \cup {m}]

\* onGameStarted(msg), up to the first await
OnGameStarted(a, gameType) ==
  LET m  == a.match + 1
      a1 == [a EXCEPT !.match = m, !.running = TRUE, !.received = <<>>]
  IN  IF gameType = "nes" THEN StartNESGame(a1, m) ELSE StartPongGame(a1, m)

\* startNESGame after the await: loadROM of match m has resolved
RomLoaded(a, m) == [StartEngine(a, m) EXCEPT !.loads = @ \ {m}]

\* loadROM of match m has rejected: onGameStarted shows the error
RomFailed(a, m) == [a EXCEPT !.loads = @ \ {m}]

\* onRematch()
OnRematch(a) == [StopGame(a) EXCEPT !.running = FALSE]

\* onRemoteInput(msg): engine?.receiveRemoteInput(msg.frame, msg.playerId,
\* msg.input)
OnRemoteInput(a, msg) ==
  LET a1 == IF a.running THEN [a EXCEPT !.received = Append(@, msg)] ELSE a
  IN  IF a1.engine # <<>>
        THEN [a1 EXCEPT !.engine[1].passed = Append(@, msg)]
        ELSE a1

\* The observer's record: which frames were first stepped with every
\* player's input present, which ingests since the last tick contradicted a
\* used input above the watermark of the last tick end, the watermark at
\* the last tick end, and the rollback the last tick executed with the
\* watermark that tick started with.
NewObs ==
  [ onTime   |-> {},
    mis      |-> {},
    cfAtTick |-> 0 - 1,
    ticked   |-> FALSE,
    ingests  |-> 0,
    rolledTo |-> Null,
    rolledAt |-> Null,
    cfAtRoll |-> Null ]

Init ==
  /\ eng = [id \in PlayerIdSet |-> NewEngine(id)]
  /\ outbox = [id \in PlayerIdSet |-> <<>>]
  /\ delivered = [id \in PlayerIdSet |-> {}]
  /\ obs = [id \in PlayerIdSet |-> NewObs]
  /\ audio = [id \in PlayerIdSet |-> NewAudio]
  /\ loop = [id \in PlayerIdSet |-> NewLoop]
  /\ net = [id \in PlayerIdSet |-> NewNet]
  /\ relay = NewRelay
  /\ cli = [w \in Conns |-> NewClient]
  /\ rom = NewRom
  /\ demo = NewDemo
  /\ ring = NoRing
  /\ app = NewApp

AllPresent(ci, frame) ==
  Has(ci, frame) /\ \A p \in PlayerIdSet : Has(ci[frame], p)

ObserveTick(o, e, after) ==
  [o EXCEPT !.onTime   = IF AllPresent(e.confirmedInputs, e.frame)
                           THEN @ \cup {e.frame} ELSE @,
            !.mis      = {},
            !.cfAtTick = after.confirmedFrame,
            !.ticked   = TRUE,
            !.rolledTo = IF RollbackDue(e) THEN e.rollbackTo ELSE Null,
            !.rolledAt = IF RollbackDue(e) THEN e.frame ELSE Null,
            !.cfAtRoll = IF RollbackDue(e) THEN e.confirmedFrame ELSE Null]

ObserveReceive(o, e, frame, playerId, input) ==
  IF playerId = e.localPlayerId THEN o
  ELSE [o EXCEPT !.mis = IF Mispredicted(e, frame, playerId, input)
                              /\ frame > o.cfAtTick
                           THEN @ \cup {frame} ELSE @,
                 !.ticked = FALSE,
                 !.ingests = @ + 1]

\* the step calls of one _tick, in order: the re-steps of _performRollback
\* when a rollback is due, then the step of the current frame; each with the
\* simulator's mute flag at the call. Neither _tick nor _performRollback
\* calls setAudioMuted, so the flag is the one the tick started with.
StepCalls(e, muted) ==
  LET resteps == IF RollbackDue(e)
                   THEN [i \in 1..(e.frame - e.rollbackTo) |->
                           [frame |-> e.rollbackTo + i - 1, resim |-> TRUE,
                            muted |-> muted]]
                   ELSE <<>>
  IN  Append(resteps, [frame |-> e.frame, resim |-> FALSE, muted |-> muted])

\* ------------------------------------------------------------------------
\* Steps of one participant
\* ------------------------------------------------------------------------
\* _loop runs one _tick: readInput() returns localInput, and the _sendInput
\* hook installed by _startEngine hands {frame, input} to the network
DoTick(id, localInput) ==
  LET e     == eng[id]
      after == Tick(e, localInput)
  IN  /\ eng' = [eng EXCEPT ![id] = after]
      /\ outbox' = [outbox EXCEPT ![id] =
                      Append(@, SentByTick(e, localInput))]
      /\ obs' = [obs EXCEPT ![id] = ObserveTick(@, e, after)]
      /\ audio' = [audio EXCEPT ![id].steps = StepCalls(e, audio[id].muted)]
      /\ UNCHANGED aux

\* onRemoteInput: the network layer calls engine.receiveRemoteInput
DoReceive(id, frame, playerId, input) ==
  /\ eng' = [eng EXCEPT ![id] = ReceiveRemoteInput(@, frame, playerId, input)]
  /\ obs' = [obs EXCEPT ![id] = ObserveReceive(@, eng[id], frame, playerId, input)]
  /\ UNCHANGED <<audio, aux>>

\* frames a peer's input message can carry within the bounds
RecvFrames(maxF) == 0..(maxF + INPUT_DELAY)

\* ------------------------------------------------------------------------
\* Spec: one engine, any interleaving of ticks and ingests of any frame,
\* player and value
\* ------------------------------------------------------------------------
TickLocal ==
  /\ eng[LocalId].frame < MaxFrame
  /\ \E li \in Inputs : DoTick(LocalId, li)
  /\ UNCHANGED delivered

ReceiveAny ==
  /\ obs[LocalId].ingests < MaxIngest
  /\ \E f \in RecvFrames(MaxFrame), p \in AnyIds, v \in Inputs :
       DoReceive(LocalId, f, p, v)
  /\ UNCHANGED <<outbox, delivered>>

Next == TickLocal \/ ReceiveAny

Spec == Init /\ [][Next]_vars

\* ------------------------------------------------------------------------
\* SpecOnce: one engine; the channel delivers each input of the peer exactly
\* once, in any order.  SpecDup: as SpecOnce, and the channel may deliver an
\* input again with the same value.  The peer's engine sends frames
\* INPUT_DELAY, INPUT_DELAY + 1, ... (its _tick queues frame + INPUT_DELAY).
\* ------------------------------------------------------------------------
PeerFrames(maxF) == INPUT_DELAY..(maxF + INPUT_DELAY - 1)

DeliveredValue(id, frame, playerId) ==
  {d[3] : d \in {x \in delivered[id] : x[1] = frame /\ x[2] = playerId}}

DoDeliver(id, frame, playerId, input) ==
  /\ DoReceive(id, frame, playerId, input)
  /\ delivered' = [delivered EXCEPT ![id] = @ \cup {<<frame, playerId, input>>}]
  /\ UNCHANGED outbox

TickNet ==
  /\ eng[LocalId].frame < MaxFrameNet
  /\ \E li \in Inputs : DoTick(LocalId, li)
  /\ UNCHANGED delivered

ReceiveOnce ==
  /\ obs[LocalId].ingests < MaxIngestNet
  /\ \E f \in PeerFrames(MaxFrameNet), v \in Inputs :
       /\ DeliveredValue(LocalId, f, RemoteId) = {}
       /\ DoDeliver(LocalId, f, RemoteId, v)

ReceiveDup ==
  /\ obs[LocalId].ingests < MaxIngestNet
  /\ \E f \in PeerFrames(MaxFrameNet), v \in Inputs :
       /\ DeliveredValue(LocalId, f, RemoteId) \subseteq {v}
       /\ DoDeliver(LocalId, f, RemoteId, v)

NextOnce == TickNet \/ ReceiveOnce
SpecOnce == Init /\ [][NextOnce]_vars

NextDup == TickNet \/ ReceiveDup
SpecDup == Init /\ [][NextDup]_vars

\* ------------------------------------------------------------------------
\* SpecLong: one engine built without a readInput callback (the default
\* reads 0) next to a peer that is silent but for a few inputs
\* ------------------------------------------------------------------------
DefaultReadInput == 0

TickLong ==
  /\ eng[LocalId].frame < MaxFrameLong
  /\ DoTick(LocalId, DefaultReadInput)
  /\ UNCHANGED delivered

ReceiveLong ==
  /\ obs[LocalId].ingests < MaxIngestLong
  /\ \E f \in PeerFrames(MaxFrameLong), v \in Inputs :
       /\ DeliveredValue(LocalId, f, RemoteId) = {}
       /\ DoDeliver(LocalId, f, RemoteId, v)

NextLong == TickLong \/ ReceiveLong
SpecLong == Init /\ [][NextLong]_vars

\* ------------------------------------------------------------------------
\* SpecPair: two engines with the same player list; each _sendInput goes to
\* the relay, which forwards it to the other participant; the channel
\* delivers each sender's messages exactly once and in the order sent.
\* ------------------------------------------------------------------------
Other(id) == IF id = LocalId THEN RemoteId ELSE LocalId

TickPair(id) ==
  /\ eng[id].frame < MaxFramePair
  /\ \E li \in Inputs : DoTick(id, li)
  /\ UNCHANGED delivered

\* the relay's `input` case and the receiver's onRemoteInput: the next
\* undelivered message of the sender, tagged with the sender's id
DeliverPair(id) ==
  LET from == Other(id)
      k    == Cardinality(delivered[id]) + 1
  IN  /\ k <= Len(outbox[from])
      /\ DoDeliver(id, outbox[from][k].frame, from, outbox[from][k].input)

TickP1 == TickPair(LocalId)
TickP2 == TickPair(RemoteId)
DeliverP1 == DeliverPair(LocalId)
DeliverP2 == DeliverPair(RemoteId)

NextPair == TickP1 \/ TickP2 \/ DeliverP1 \/ DeliverP2
SpecPair == Init /\ [][NextPair]_vars

\* ------------------------------------------------------------------------
\* Properties
\* ------------------------------------------------------------------------
L == eng[LocalId]
KeepFrom(e) == Max2(0, e.confirmedFrame - 1)
ComputedMin(e) ==
  MinOver({e.lastReceivedFrame[p] : p \in DOMAIN e.lastReceivedFrame},
          e.frame + INPUT_DELAY)

\* C5: across any interleaving of ticks and ingests (any frame, player and
\* value), no step lowers the confirmed-frame watermark of an engine.
C5_WatermarkNeverDecreases ==
  [][\A id \in PlayerIdSet : eng'[id].confirmedFrame >= eng[id].confirmedFrame]_vars

\* the engine has ticked and ingested, its watermark has advanced, and the
\* minimum it now computes lies below the watermark it holds
C5_Witness ==
  /\ L.frame >= 1
  /\ obs[LocalId].ingests >= 2
  /\ L.confirmedFrame >= 1
  /\ ComputedMin(L) < L.confirmedFrame

\* C8 as stated: between ticks every frame below current-frame has a used
\* input map, total over the players, and a snapshot.
C8_AllFramesRetained ==
  \A f \in 0..(L.frame - 1) :
    /\ Has(L.usedInputs, f)
    /\ DOMAIN L.usedInputs[f] = PlayerIdSet
    /\ Has(L.stateHistory, f)

\* C8 amended: between ticks every frame f with
\* max(0, confirmed-frame - 1) <= f < current-frame has a used input map
\* with exactly one value per player of the match, and a snapshot.
C8_UnprunedFramesRetained ==
  \A f \in KeepFrom(L)..(L.frame - 1) :
    /\ Has(L.usedInputs, f)
    /\ DOMAIN L.usedInputs[f] = PlayerIdSet
    /\ Has(L.stateHistory, f)

\* a tick has pruned frame 0 and frames at and above the prune threshold
\* are still held
C8_Witness ==
  /\ L.frame >= 3
  /\ ~ Has(L.stateHistory, 0)
  /\ KeepFrom(L) < L.frame - 1
  /\ Has(L.stateHistory, KeepFrom(L))

\* C6: at the end of every tick each of confirmed-inputs, used-inputs and
\* state-history holds at most max-rollback + input-delay + 2 frame entries,
\* also while the remote peer stays silent.
C6_HistoryBounded ==
  LET capacity == MAX_ROLLBACK + INPUT_DELAY + 2
  IN  obs[LocalId].ticked =>
        /\ Cardinality(DOMAIN L.confirmedInputs) <= capacity
        /\ Cardinality(DOMAIN L.usedInputs) <= capacity
        /\ Cardinality(DOMAIN L.stateHistory) <= capacity

\* C7: every executed rollback rewinds at most MAX_ROLLBACK frames, and the
\* reported deepest rollback never exceeds MAX_ROLLBACK.
C7_RollbackDepthBounded ==
  /\ L.stats.maxRollbackDepth <= MAX_ROLLBACK
  /\ obs[LocalId].rolledTo # Null =>
       obs[LocalId].rolledAt - obs[LocalId].rolledTo <= MAX_ROLLBACK

\* the input player p handed to _sendInput for frame f
SentInput(p, f) == outbox[p][f - INPUT_DELAY + 1].input
HasSent(p, f) == f >= INPUT_DELAY /\ f - INPUT_DELAY + 1 <= Len(outbox[p])

\* C1: two engines with the same player list over channels that deliver
\* each peer's inputs once and in frame order: when both are at the end of a
\* tick, for every frame both have stepped that is at or below both
\* watermarks, the input map last fed to the simulator for that frame is the
\* same on both, and so is the simulator state reached by stepping it.
C1_SameInputsFed ==
  LET a == eng[LocalId]
      b == eng[RemoteId]
  IN  (obs[LocalId].ticked /\ obs[RemoteId].ticked) =>
        \A f \in 0..(Min2(a.frame, b.frame) - 1) :
          (f <= a.confirmedFrame /\ f <= b.confirmedFrame) =>
            /\ a.emulator[f + 1] = b.emulator[f + 1]
            /\ SubSeq(a.emulator, 1, f + 1) = SubSeq(b.emulator, 1, f + 1)

\* both engines are at a tick end past frame INPUT_DELAY with that frame
\* confirmed, a rollback has corrected a prediction on one of them, and a
\* pressed button of each player went into frame INPUT_DELAY
C1_Witness ==
  LET a == eng[LocalId]
      b == eng[RemoteId]
  IN  /\ obs[LocalId].ticked /\ obs[RemoteId].ticked
      /\ a.frame > INPUT_DELAY /\ b.frame > INPUT_DELAY
      /\ a.confirmedFrame >= INPUT_DELAY /\ b.confirmedFrame >= INPUT_DELAY
      /\ a.stats.rollbacks + b.stats.rollbacks >= 1
      /\ a.emulator[INPUT_DELAY + 1] = [p \in PlayerIdSet |-> 1]

\* C3: with each peer's inputs delivered once and in frame order, at the end
\* of a tick every stepped frame f still in used-inputs with
\* input-delay <= f <= confirmed-frame has, for every remote player p,
\* used-inputs[f][p] equal to the input p sent for f.
C3_NoMispredictionBelowWatermark ==
  \A id \in PlayerIdSet :
    obs[id].ticked =>
      \A f \in DOMAIN eng[id].usedInputs :
        (INPUT_DELAY <= f /\ f <= eng[id].confirmedFrame) =>
          \A p \in PlayerIdSet \ {id} :
            /\ HasSent(p, f)
            /\ eng[id].usedInputs[f][p] = SentInput(p, f)

\* the tick that just ended rolled back to a confirmed frame that is still
\* held and whose remote input differs from the prediction 0
C3_Witness ==
  /\ obs[LocalId].ticked
  /\ obs[LocalId].rolledTo # Null
  /\ obs[LocalId].rolledTo <= L.confirmedFrame
  /\ Has(L.usedInputs, obs[LocalId].rolledTo)
  /\ L.usedInputs[obs[LocalId].rolledTo][RemoteId] = 1

\* the least element of a non-empty set of frames
MinFrame(S) == CHOOSE x \in S : \A y \in S : x <= y

\* C4: when several inputs ingested between two ticks contradict the used
\* inputs of stepped frames that were above the watermark at the end of the
\* previous tick, then in whatever order they come the pending rollback
\* target is the smallest of those frames, and the next tick performs exactly
\* one rollback, to that frame, and leaves the target unset.
C4_RollsBackToEarliest ==
  /\ [](obs[LocalId].mis # {} => L.rollbackTo = MinFrame(obs[LocalId].mis))
  /\ [][(obs[LocalId].mis # {} /\ eng'[LocalId].frame = L.frame + 1) =>
          /\ eng'[LocalId].stats.rollbacks = L.stats.rollbacks + 1
          /\ obs'[LocalId].rolledTo = MinFrame(obs[LocalId].mis)
          /\ eng'[LocalId].rollbackTo = Null]_vars

\* the peer's inputs for the frames INPUT_DELAY .. frame - 1 have all been
\* ingested by engine id
AllDelivered(id, p) ==
  \A f \in INPUT_DELAY..(eng[id].frame - 1) : DeliveredValue(id, f, p) # {}

\* C10: for any order in which the peer's inputs are delivered (each once),
\* once all its inputs for frames < current-frame are ingested, the next tick
\* leaves used-inputs[f][p] equal to the delivered input for every stepped
\* frame f still held.
C10_OutOfOrderTolerated ==
  [][(AllDelivered(LocalId, RemoteId) /\ eng'[LocalId].frame = L.frame + 1) =>
       \A f \in DOMAIN eng'[LocalId].usedInputs :
         (INPUT_DELAY <= f /\ f < L.frame) =>
           {eng'[LocalId].usedInputs[f][RemoteId]} = DeliveredValue(LocalId, f, RemoteId)]_vars

\* C9: a frame first stepped with every player's input present has, as long
\* as it is held, used-inputs equal to confirmed-inputs for every player,
\* and no later ingest of those values makes it the pending rollback target.
C9_OnTimeInputsUsed ==
  /\ [](\A f \in obs[LocalId].onTime \cap DOMAIN L.usedInputs :
          /\ Has(L.confirmedInputs, f)
          /\ \A p \in PlayerIdSet :
               /\ Has(L.confirmedInputs[f], p)
               /\ L.usedInputs[f][p] = L.confirmedInputs[f][p])
  /\ [][\A f \in obs[LocalId].onTime :
          eng'[LocalId].rollbackTo = f => L.rollbackTo = f]_vars

\* frame INPUT_DELAY was stepped with the peer's pressed button already
\* there, a later rollback re-stepped it, and its input was delivered again
C9_Witness ==
  /\ INPUT_DELAY \in obs[LocalId].onTime
  /\ Has(L.usedInputs, INPUT_DELAY)
  /\ L.usedInputs[INPUT_DELAY][RemoteId] = 1
  /\ L.frame > INPUT_DELAY + 1
  /\ obs[LocalId].ingests > Cardinality(delivered[LocalId])
  /\ L.stats.rollbacks >= 1

\* The timeline in which every delivered input arrives on time: a fresh
\* engine that ingests each input of K right before it steps that input's
\* frame, and ticks with the same local reads.
RECURSIVE IngestAll(_, _)
IngestAll(e, K) ==
  IF K = {} THEN e
  ELSE LET d == CHOOSE x \in K : \A y \in K : x[1] <= y[1]
       IN  IngestAll(ReceiveRemoteInput(e, d[1], d[2], d[3]), K \ {d})

RECURSIVE OnTimeRun(_, _, _)
OnTimeRun(e, sent, K) ==
  IF e.frame >= Len(sent) THEN e
  ELSE OnTimeRun(Tick(IngestAll(e, {d \in K : d[1] = e.frame}),
                      sent[e.frame + 1].input), sent, K)

OnTimeEngine(id) == OnTimeRun(NewEngine(id), outbox[id], delivered[id])

\* C2: after a tick that rolled back to frame t, the simulator state and the
\* snapshot of every held frame >= t equal those of the timeline with the
\* same local reads in which the delivered inputs arrived on time.
C2_RollbackConverges ==
  \A id \in PlayerIdSet :
    (obs[id].ticked /\ obs[id].rolledTo # Null) =>
      LET r == OnTimeEngine(id)
      IN  /\ eng[id].emulator = r.emulator
          /\ \A f \in DOMAIN eng[id].stateHistory :
               f >= obs[id].rolledTo =>
                 eng[id].stateHistory[f] = SubSeq(r.emulator, 1, f)

\* this step is engine id's receiveRemoteInput(frame, playerId, input) for a
\* player other than the local one
IsReceive(id, frame, playerId, input) ==
  /\ playerId # eng[id].localPlayerId
  /\ obs'[id].ingests = obs[id].ingests + 1
  /\ eng'[id] = ReceiveRemoteInput(eng[id], frame, playerId, input)

\* this step is a tick of engine id
IsTick(id) == Len(outbox'[id]) = Len(outbox[id]) + 1

\* every frame an ingest of Spec can carry
AllFrames == RecvFrames(MaxFrame)

\* C11: an ingest for a frame at or below the confirmed-frame watermark whose
\* value contradicts the used input neither sets nor changes the pending
\* rollback target, and leaves current-frame, the watermark, used-inputs,
\* state-history and the simulator unchanged.
C11_LateMispredictionIgnored ==
  [][obs'[LocalId].ingests = obs[LocalId].ingests + 1 =>
       \A f \in {g \in AllFrames : g <= L.confirmedFrame},
          p \in AnyIds \ {LocalId}, v \in Inputs :
         (/\ Mispredicted(L, f, p, v)
          /\ IsReceive(LocalId, f, p, v)) =>
           /\ eng'[LocalId].rollbackTo = L.rollbackTo
           /\ eng'[LocalId].frame = L.frame
           /\ eng'[LocalId].confirmedFrame = L.confirmedFrame
           /\ eng'[LocalId].usedInputs = L.usedInputs
           /\ eng'[LocalId].stateHistory = L.stateHistory
           /\ eng'[LocalId].emulator = L.emulator]_vars

\* the last step ingested, for a held frame at or below the watermark, a
\* value of the peer that differs from the used one, and no rollback is
\* pending
C11_Witness ==
  /\ ~ obs[LocalId].ticked
  /\ L.rollbackTo = Null
  /\ \E f \in DOMAIN L.usedInputs :
       /\ f <= L.confirmedFrame
       /\ Has(L.confirmedInputs, f)
       /\ Has(L.confirmedInputs[f], RemoteId)
       /\ L.confirmedInputs[f][RemoteId] # L.usedInputs[f][RemoteId]

\* C12: once confirmed-inputs holds a value for (frame, player), an ingest
\* for the same (frame, player) with a different value leaves the stored
\* value as it was.
C12_ConfirmedInputsWriteOnce ==
  [][\A f \in AllFrames, p \in AnyIds, v \in Inputs :
       (/\ IsReceive(LocalId, f, p, v)
        /\ Has(L.confirmedInputs, f)
        /\ Has(L.confirmedInputs[f], p)
        /\ L.confirmedInputs[f][p] # v) =>
         /\ Has(eng'[LocalId].confirmedInputs, f)
         /\ Has(eng'[LocalId].confirmedInputs[f], p)
         /\ eng'[LocalId].confirmedInputs[f][p] = L.confirmedInputs[f][p]]_vars

\* C13: an ingest whose player id is not in the player list is discarded:
\* confirmed-inputs, the receive watermarks and the set of peers they track,
\* the confirmed-frame watermark and the pending rollback target are
\* unchanged, and no later watermark is computed from it.
C13_UnknownPlayerDiscarded ==
  [][\A f \in AllFrames, v \in Inputs :
       IsReceive(LocalId, f, UnknownId, v) =>
         /\ eng'[LocalId].confirmedInputs = L.confirmedInputs
         /\ eng'[LocalId].lastReceivedFrame = L.lastReceivedFrame
         /\ eng'[LocalId].confirmedFrame = L.confirmedFrame
         /\ eng'[LocalId].rollbackTo = L.rollbackTo]_vars

\* C14 as stated: whenever the pending rollback target is set, it lies
\* strictly between the confirmed-frame watermark and current-frame, and
\* state-history holds a snapshot for it.
C14_TargetAboveWatermark ==
  L.rollbackTo # Null =>
    /\ L.confirmedFrame < L.rollbackTo
    /\ L.rollbackTo < L.frame
    /\ Has(L.stateHistory, L.rollbackTo)

\* C14 amended: whenever the pending rollback target is set, it lies strictly
\* between the watermark as it stood at the end of the last tick and
\* current-frame, and state-history holds a snapshot for it.
C14_TargetAboveTickWatermark ==
  L.rollbackTo # Null =>
    /\ obs[LocalId].cfAtTick < L.rollbackTo
    /\ L.rollbackTo < L.frame
    /\ Has(L.stateHistory, L.rollbackTo)

\* a target is pending after two ingests, and the watermark has reached it
C14_Witness ==
  /\ L.rollbackTo # Null
  /\ obs[LocalId].ingests = 2
  /\ L.confirmedFrame >= L.rollbackTo

C16_WatermarkCapped ==
  L.confirmedFrame <= L.frame + INPUT_DELAY

\* the peer has delivered a frame beyond current-frame + input-delay and the
\* watermark sits at the cap
C16_Witness ==
  /\ L.frame >= 1
  /\ L.lastReceivedFrame[RemoteId] > L.frame + INPUT_DELAY
  /\ L.confirmedFrame = L.frame + INPUT_DELAY

\* C17: the k-th tick (k = 0, 1, ...) sends exactly one message, carrying
\* frame k + input-delay and the value just read, and confirmed-inputs holds
\* that value for the local player at that frame at the end of the tick; the
\* sent frames are consecutive, also through ticks that execute a rollback.
C17_SendsQueueFrame ==
  LET sent == outbox[LocalId]
  IN  /\ Len(sent) = L.frame
      /\ \A k \in 1..Len(sent) : sent[k].frame = (k - 1) + INPUT_DELAY
      /\ (obs[LocalId].ticked /\ Len(sent) >= 1) =>
           LET m == sent[Len(sent)]
           IN  /\ Has(L.confirmedInputs, m.frame)
               /\ Has(L.confirmedInputs[m.frame], LocalId)
               /\ L.confirmedInputs[m.frame][LocalId] = m.input

\* a tick that executed a rollback has sent the third message, with a
\* pressed value
C17_Witness ==
  /\ obs[LocalId].ticked
  /\ obs[LocalId].rolledTo # Null
  /\ Len(outbox[LocalId]) = 3
  /\ outbox[LocalId][3].input = 1

\* C18: for every frame f >= input-delay, the local player's value in
\* used-inputs[f], and in the input map last fed to the simulator for f, is
\* the value read at tick f - input-delay.
C18_LocalInputIsReadValue ==
  LET sent == outbox[LocalId]
  IN  /\ \A f \in DOMAIN L.usedInputs :
           f >= INPUT_DELAY =>
             L.usedInputs[f][LocalId] = sent[f - INPUT_DELAY + 1].input
      /\ \A f \in INPUT_DELAY..(Len(L.emulator) - 1) :
           L.emulator[f + 1][LocalId] = sent[f - INPUT_DELAY + 1].input

\* a rollback has just re-stepped a frame f >= input-delay for which the
\* value read was pressed
C18_Witness ==
  /\ obs[LocalId].ticked
  /\ obs[LocalId].rolledTo # Null
  /\ \E f \in DOMAIN L.usedInputs :
       /\ f >= INPUT_DELAY
       /\ obs[LocalId].rolledTo <= f
       /\ f < obs[LocalId].rolledAt
       /\ L.usedInputs[f][LocalId] = 1

\* C19: current-frame starts at 0; every tick increases it by exactly 1,
\* whether or not it executes a rollback; no other step changes it.
C19_FrameAdvancesByOne ==
  /\ L.frame = 0
  /\ [][/\ IsTick(LocalId) => eng'[LocalId].frame = L.frame + 1
        /\ ~ IsTick(LocalId) => eng'[LocalId].frame = L.frame]_vars

\* a tick that rolled back two frames has just ended one frame further
C19_Witness ==
  /\ obs[LocalId].ticked
  /\ obs[LocalId].rolledTo # Null
  /\ obs[LocalId].rolledTo + 2 = obs[LocalId].rolledAt
  /\ L.frame = obs[LocalId].rolledAt + 1

\* C20: a tick that executes a rollback to t at current-frame c adds exactly
\* 1 to the rollback count and sets the maximum depth to max(previous, c - t);
\* a tick without rollback and every ingest leave both unchanged.
C20_RollbackStats ==
  [][LET before == L.stats
         after  == eng'[LocalId].stats
         t      == obs'[LocalId].rolledTo
     IN  IF IsTick(LocalId) /\ t # Null
           THEN /\ after.rollbacks = before.rollbacks + 1
                /\ after.maxRollbackDepth = Max2(before.maxRollbackDepth, L.frame - t)
                /\ t = L.rollbackTo
           ELSE /\ after.rollbacks = before.rollbacks
                /\ after.maxRollbackDepth = before.maxRollbackDepth]_vars

\* two mispredictions were ingested between two ticks, both frames were
\* re-stepped with the ingested values, and one rollback was counted
C20_Witness ==
  /\ obs[LocalId].ticked
  /\ obs[LocalId].rolledTo = 0
  /\ obs[LocalId].ingests = 2
  /\ L.stats.rollbacks = 1
  /\ L.stats.maxRollbackDepth = 2
  /\ Has(L.usedInputs, 0) /\ L.usedInputs[0][RemoteId] = 1
  /\ Has(L.usedInputs, 1) /\ L.usedInputs[1][RemoteId] = 1

\* ------------------------------------------------------------------------
\* The frame pacer: start, stop and the animation-frame callback _loop
\* ------------------------------------------------------------------------
MaxFrameLoop == 7
MaxHandle == 4
MaxIngestLoop == 1

\* times between two animation-frame callbacks, in time units: under one
\* frame period, one period, the cap, and beyond the cap
Elapsed == {20, FRAME_MS, DELTA_CAP, DELTA_CAP + FRAME_MS}

\* NetworkClient.send: an open socket sends, a closed one queues the message
NetSend(n, msg) ==
  IF n.connected THEN n ELSE [n EXCEPT !.queue = Append(@, msg)]

\* ws.onclose: the client notes the loss and dispatches `disconnect`, whose
\* handler in bindNetworkEvents only writes a chat line
OnClose(n) == [n EXCEPT !.connected = FALSE]

\* one participant as _loop sees it: engine, _sendInput log, observer, audio,
\* pacer and network client
Participant(id) ==
  [e |-> eng[id], sent |-> outbox[id], o |-> obs[id], a |-> audio[id],
   l |-> loop[id], n |-> net[id]]

\* the while loop of _loop: one _tick per whole frame period accumulated
RECURSIVE RunTicks(_, _)
RunTicks(s, localInput) ==
  IF s.l.accumulator >= FRAME_MS
    THEN LET after == Tick(s.e, localInput)
             msg   == SentByTick(s.e, localInput)
         IN  RunTicks([s EXCEPT !.e = after,
                                !.sent = Append(@, msg),
                                !.n = NetSend(@, msg),
                                !.o = ObserveTick(@, s.e, after),
                                !.a.steps = StepCalls(s.e, s.a.muted),
                                !.l.accumulator = @ - FRAME_MS],
                      localInput)
    ELSE s

\* requestAnimationFrame(this._loop.bind(this))
RequestFrame(l) ==
  [l EXCEPT !.rafId = l.nextHandle,
            !.scheduled = @ \cup {l.nextHandle},
            !.nextHandle = @ + 1]

\* as _loop, without the test of _running
LoopNoRunningTest(s, handle, elapsed, localInput) ==
  LET fired == [s EXCEPT !.l.scheduled = @ \ {handle}]
      delta == Min2(elapsed, DELTA_CAP)
      timed == [fired EXCEPT !.l.accumulator = @ + delta,
                             !.l.accAtLoop = fired.l.accumulator + delta]
      run   == RunTicks(timed, localInput)
  IN  [run EXCEPT !.l = RequestFrame(@)]

\* as _loop, without the cap on the time between two callbacks
LoopNoDeltaCap(s, handle, elapsed, localInput) ==
  LET fired == [s EXCEPT !.l.scheduled = @ \ {handle}]
  IN  IF ~ fired.l.running
        THEN [fired EXCEPT !.l.skipped = @ + 1]
        ELSE LET timed == [fired EXCEPT !.l.accumulator = @ + elapsed,
                                        !.l.accAtLoop = fired.l.accumulator + elapsed]
                 run   == RunTicks(timed, localInput)
             IN  [run EXCEPT !.l = RequestFrame(@)]

\* _loop(timestamp), the browser running callback `handle` when `elapsed`
\* time units have passed since _lastTime, with readInput() returning
\* localInput
Loop(s, handle, elapsed, localInput) ==
  LET fired == [s EXCEPT !.l.scheduled = @ \ {handle}]
  IN  IF ~ fired.l.running
        THEN [fired EXCEPT !.l.skipped = @ + 1]
        ELSE LET delta == Min2(elapsed, DELTA_CAP)
                 timed == [fired EXCEPT !.l.accumulator = @ + delta,
                                        !.l.accAtLoop = fired.l.accumulator + delta]
                 run   == RunTicks(timed, localInput)
             IN  [run EXCEPT !.l = RequestFrame(@)]

\* start()
Start(l) == RequestFrame([l EXCEPT !.running = TRUE])

\* stop()
Stop(l) ==
  [l EXCEPT !.running = FALSE,
            !.scheduled = IF l.rafId # Null THEN @ \ {l.rafId} ELSE @,
            !.rafId = Null]

\* ------------------------------------------------------------------------
\* SpecLoop: one engine driven by its pacer; the application starts and
\* stops it, the browser runs the scheduled callbacks, the socket may close
\* and the peer's inputs arrive
\* ------------------------------------------------------------------------
StartLoop ==
  /\ loop[LocalId].nextHandle <= MaxHandle
  /\ loop' = [loop EXCEPT ![LocalId] = Start(@)]
  /\ UNCHANGED <<eng, outbox, delivered, obs, audio, net, relay, cli, rom, demo, ring, app>>

StopLoop ==
  /\ loop' = [loop EXCEPT ![LocalId] = Stop(@)]
  /\ UNCHANGED <<eng, outbox, delivered, obs, audio, net, relay, cli, rom, demo, ring, app>>

LoopFires ==
  \E h \in loop[LocalId].scheduled, d \in Elapsed, li \in Inputs :
    LET after == Loop(Participant(LocalId), h, d, li)
    IN  /\ loop[LocalId].nextHandle <= MaxHandle
        /\ after.e.frame <= MaxFrameLoop
        /\ eng' = [eng EXCEPT ![LocalId] = after.e]
        /\ outbox' = [outbox EXCEPT ![LocalId] = after.sent]
        /\ obs' = [obs EXCEPT ![LocalId] = after.o]
        /\ audio' = [audio EXCEPT ![LocalId] = after.a]
        /\ loop' = [loop EXCEPT ![LocalId] = after.l]
        /\ net' = [net EXCEPT ![LocalId] = after.n]
        /\ UNCHANGED <<delivered, relay, cli, rom, demo, ring, app>>

SocketCloses ==
  /\ net[LocalId].connected
  /\ net' = [net EXCEPT ![LocalId] = OnClose(@)]
  /\ UNCHANGED <<eng, outbox, delivered, obs, audio, loop, relay, cli, rom, demo, ring, app>>

ReceiveLoop ==
  /\ obs[LocalId].ingests < MaxIngestLoop
  /\ \E f \in PeerFrames(MaxFrameLoop), v \in Inputs :
       DoReceive(LocalId, f, RemoteId, v)
  /\ UNCHANGED <<outbox, delivered>>

NextLoop == StartLoop \/ StopLoop \/ LoopFires \/ SocketCloses \/ ReceiveLoop
SpecLoop == Init /\ [][NextLoop]_vars

\* C21: while the engine is stopped, from the return of stop() until start()
\* is called again, no tick runs: current-frame, used-inputs, state-history
\* and the simulator are not advanced and nothing is handed to _sendInput,
\* also when a callback scheduled before stop() runs; the only change to the
\* engine is an ingest.
C21_NoTickWhileStopped ==
  [][(~ loop[LocalId].running /\ ~ loop'[LocalId].running) =>
       /\ outbox' = outbox
       /\ net'[LocalId].queue = net[LocalId].queue
       /\ \/ eng' = eng
          \/ /\ obs'[LocalId].ingests = obs[LocalId].ingests + 1
             /\ eng'[LocalId].frame = L.frame
             /\ eng'[LocalId].usedInputs = L.usedInputs
             /\ eng'[LocalId].stateHistory = L.stateHistory
             /\ eng'[LocalId].emulator = L.emulator]_vars

\* the engine has ticked, was stopped, and a callback scheduled earlier has
\* run since without rescheduling itself
C21_Witness ==
  /\ ~ loop[LocalId].running
  /\ loop[LocalId].skipped >= 1
  /\ loop[LocalId].scheduled = {}
  /\ L.frame >= 1

\* C22: once the relay channel has closed, no further tick is executed and no
\* further local input is handed to the network client.
C22_StopsOnDisconnect ==
  [][~ net[LocalId].connected =>
       /\ eng'[LocalId].frame = L.frame
       /\ outbox'[LocalId] = outbox[LocalId]
       /\ net'[LocalId].queue = net[LocalId].queue]_vars

\* C29: every step call of re-simulation is made with the simulator muted,
\* and every step call for the live current frame with it unmuted.
C29_ResimulationMuted ==
  \A i \in 1..Len(audio[LocalId].steps) :
    audio[LocalId].steps[i].muted = audio[LocalId].steps[i].resim

\* C30 as stated: the accumulator is at most 100 ms when the tick loop of an
\* iteration starts, and below the frame period when the iteration ends.
C30_AccumulatorCapped ==
  /\ loop[LocalId].accAtLoop <= DELTA_CAP
  /\ loop[LocalId].accumulator < FRAME_MS

\* C30 amended: the accumulator is below 100 ms plus one frame period when
\* the tick loop of an iteration starts, and below the frame period when the
\* iteration ends.
C30_AccumulatorBelowCapPlusFrame ==
  /\ loop[LocalId].accAtLoop < DELTA_CAP + FRAME_MS
  /\ loop[LocalId].accumulator < FRAME_MS

\* an iteration entered its tick loop with more than 100 ms accumulated and
\* ran six ticks
C30_Witness ==
  /\ loop[LocalId].accAtLoop > DELTA_CAP
  /\ L.frame >= 6
  /\ loop[LocalId].accumulator < FRAME_MS

\* ------------------------------------------------------------------------
\* Steps of the connections and of the relay
\* ------------------------------------------------------------------------
MaxRooms == 1
MaxCmdsRoom == 1

\* NetworkClient.send on an open socket
ClientSend(ws, msg) == [relay EXCEPT !.sock[ws].up = Append(@, msg)]

\* the lobby's Create button
ClientCreates(ws) ==
  /\ relay.sock[ws].open
  /\ cli[ws].acted = 0
  /\ Cardinality({w \in Conns : cli[w].acted = 2}) < MaxRooms
  /\ relay' = ClientSend(ws, Plain("create-room"))
  /\ cli' = [cli EXCEPT ![ws].acted = 2]
  /\ UNCHANGED engineVars

\* the lobby's Join button, with the code of a room or a code of no room
ClientJoins(ws) ==
  /\ relay.sock[ws].open
  /\ cli[ws].acted = 0
  /\ \E code \in (DOMAIN relay.rooms) \cup {0} :
       relay' = ClientSend(ws, Msg("join-room", code, Null, Null, Null, Null, ""))
  /\ cli' = [cli EXCEPT ![ws].acted = 1]
  /\ UNCHANGED engineVars

\* the application shows the Start and Rematch buttons to the host only
IsHost(ws) ==
  /\ CtxRoom(relay, ws) # Null
  /\ relay.rooms[CtxRoom(relay, ws)].hostId = CtxPlayer(relay, ws)

\* the Start button of the pre-game panel
ClientStarts(ws) ==
  /\ relay.sock[ws].open
  /\ IsHost(ws)
  /\ cli[ws].match = 0
  /\ relay' = ClientSend(ws, Plain("start-game"))
  /\ cli' = [cli EXCEPT ![ws].cmds = @ + 1]
  /\ UNCHANGED engineVars

\* ws.on('message') for the oldest message in flight on ws
ServerHandles(ws) ==
  /\ relay.sock[ws].open
  /\ relay.sock[ws].up # <<>>
  /\ relay' = HandleMessage([relay EXCEPT !.sock[ws].up = Tail(@)], ws,
                            Head(relay.sock[ws].up))
  /\ UNCHANGED <<cli, engineVars>>

\* the connection closes: ws.on('close') on the server, and the page is gone
ConnCloses(ws) ==
  /\ relay.sock[ws].open
  /\ relay' = HandleClose(relay, ws)
  /\ cli' = [cli EXCEPT ![ws].match = 0]
  /\ UNCHANGED engineVars

\* ------------------------------------------------------------------------
\* SpecRoom: five connections create, join and leave rooms and start games
\* ------------------------------------------------------------------------
\* the server has handled everything sent so far: SpecRoom lets the
\* connections act one after the other
QuietWire == \A w \in Conns : relay.sock[w].up = <<>>

\* the host commands the connections of S have sent
RECURSIVE TotalCmds(_)
TotalCmds(S) ==
  IF S = {} THEN 0
  ELSE LET w == CHOOSE x \in S : TRUE IN cli[w].cmds + TotalCmds(S \ {w})

\* connections are interchangeable: of those still in the lobby, the first
\* in the order w1, w2, ... acts next
ConnOrder == <<"w1", "w2", "w3", "w4", "w5">>
FirstInLobby(ws) ==
  \E i \in 1..Len(ConnOrder) :
    /\ ConnOrder[i] = ws
    /\ \A j \in 1..(i - 1) :
         cli[ConnOrder[j]].acted # 0 \/ ~ relay.sock[ConnOrder[j]].open

RoomCreates == QuietWire /\ \E ws \in Conns : FirstInLobby(ws) /\ ClientCreates(ws)
RoomJoins == QuietWire /\ \E ws \in Conns : FirstInLobby(ws) /\ ClientJoins(ws)
RoomStarts ==
  /\ QuietWire
  /\ TotalCmds(Conns) < MaxCmdsRoom
  /\ \E ws \in Conns : ClientStarts(ws)
RoomHandles == \E ws \in Conns : ServerHandles(ws)
RoomCloses == QuietWire /\ \E ws \in Conns : ConnCloses(ws)

NextRoom == RoomCreates \/ RoomJoins \/ RoomStarts \/ RoomHandles \/ RoomCloses
SpecRoom == Init /\ [][NextRoom]_vars

\* this step is the server handling the oldest message of ws
IsHandled(ws) ==
  /\ relay.sock[ws].open
  /\ relay.sock[ws].up # <<>>
  /\ relay'.sock[ws].open
  /\ relay'.sock[ws].up = Tail(relay.sock[ws].up)

SentTypes(ws) ==
  {relay'.sock[ws].down[i].type :
     i \in (Len(relay.sock[ws].down) + 1)..Len(relay'.sock[ws].down)}
SocketsOf(room) == {room.players[i].ws : i \in 1..Len(room.players)}

RelayConns == {"w1", "w2", "w3"}
MaxCmdsRelay == 3
MaxSent == 1

\* the Rematch button of the game panel
ClientRematches(ws) ==
  /\ relay.sock[ws].open
  /\ IsHost(ws)
  /\ cli[ws].match # 0
  /\ relay' = ClientSend(ws, Plain("rematch"))
  /\ cli' = [cli EXCEPT ![ws].cmds = @ + 1]
  /\ UNCHANGED engineVars

\* a tick of the connection's running engine: _sendInput hands the queue
\* frame and the value read to net.send
ClientSendsInput(ws) ==
  /\ relay.sock[ws].open
  /\ cli[ws].match # 0
  /\ cli[ws].sent < MaxSent
  /\ \E v \in Inputs :
       relay' = ClientSend(ws, Msg("input", Null, Null, cli[ws].sent + INPUT_DELAY,
                                   v, cli[ws].match, ""))
  /\ cli' = [cli EXCEPT ![ws].sent = @ + 1]
  /\ UNCHANGED engineVars

\* a connection that is still in the lobby sends an input message
StraySendsInput(ws) ==
  /\ relay.sock[ws].open
  /\ cli[ws].acted = 0
  /\ cli[ws].sent < MaxSent
  /\ relay' = ClientSend(ws, Msg("input", Null, Null, INPUT_DELAY, 1, 0, ""))
  /\ cli' = [cli EXCEPT ![ws].sent = @ + 1]
  /\ UNCHANGED engineVars

\* the application's handlers of bindNetworkEvents: game-started builds and
\* starts an engine, rematch stops it, input goes to the running engine
OnMessage(c, msg) ==
  CASE msg.type = "game-started" -> [c EXCEPT !.match = msg.tag, !.sent = 0]
    [] msg.type = "rematch"      -> [c EXCEPT !.match = 0]
    [] msg.type = "input"        ->
         IF c.match # 0 THEN [c EXCEPT !.got = @ \cup {<<c.match, msg.tag>>}] ELSE c
    [] OTHER                     -> c

\* ws.onmessage for the oldest message in flight to the application
ClientReceives(ws) ==
  /\ relay.sock[ws].open
  /\ relay.sock[ws].down # <<>>
  /\ cli' = [cli EXCEPT ![ws] = OnMessage(@, Head(relay.sock[ws].down))]
  /\ relay' = [relay EXCEPT !.sock[ws].down = Tail(@)]
  /\ UNCHANGED engineVars

RelayCreates ==
  QuietWire /\ \E ws \in RelayConns : FirstInLobby(ws) /\ ClientCreates(ws)
RelayJoins ==
  QuietWire /\ \E ws \in RelayConns : FirstInLobby(ws) /\ ClientJoins(ws)
RelayStarts ==
  /\ TotalCmds(RelayConns) < MaxCmdsRelay
  /\ \E ws \in RelayConns : ClientStarts(ws)
RelayRematches ==
  /\ TotalCmds(RelayConns) < MaxCmdsRelay
  /\ \E ws \in RelayConns : ClientRematches(ws)
RelaySendsInput == \E ws \in RelayConns : ClientSendsInput(ws)
RelayStray ==
  QuietWire /\ \E ws \in RelayConns : FirstInLobby(ws) /\ StraySendsInput(ws)
RelayHandles == \E ws \in RelayConns : ServerHandles(ws)
RelayReceives == \E ws \in RelayConns : ClientReceives(ws)

NextRelay ==
  \/ RelayCreates \/ RelayJoins \/ RelayStarts \/ RelayRematches
  \/ RelaySendsInput \/ RelayStray \/ RelayHandles \/ RelayReceives
SpecRelay == Init /\ [][NextRelay]_vars

C24_InputsOfSameMatch ==
  \A w \in Conns : \A g \in cli[w].got : g[1] = g[2]

\* ------------------------------------------------------------------------
\* The ROM cache under reads and insertions
\* ------------------------------------------------------------------------
MaxClock == 2
MaxRomOps == 6
UrlOrder == <<"u1", "u2", "u3", "u4", "u5">>
Urls == {UrlOrder[i] : i \in 1..Len(UrlOrder)}
RomSizes == {ROM_MAX_BYTES, ROM_MAX_BYTES \div 2}

\* Date.now() has moved on by a millisecond
RomClock ==
  /\ rom.now < MaxClock
  /\ rom' = [rom EXCEPT !.now = @ + 1]
  /\ UNCHANGED <<eng, outbox, delivered, obs, audio, loop, net, relay, cli, demo, ring, app>>

\* GET /rom-proxy of a cached url
RomRead ==
  /\ rom.ops < MaxRomOps
  /\ \E url \in CachedUrls(rom) : rom' = RomCacheGet(rom, url)
  /\ UNCHANGED <<eng, outbox, delivered, obs, audio, loop, net, relay, cli, demo, ring, app>>

\* GET /rom-proxy of a url that was not cached when the request came in: the
\* upstream fetch has returned len bytes. Requests that came in together
\* insert the same url more than once. Of the urls that were never used,
\* which are interchangeable, the first one is taken.
NextUrl(c) == {UrlOrder[i] : i \in {k \in 1..Len(UrlOrder) : k = c.fresh}}
RomInsert ==
  /\ rom.ops < MaxRomOps
  /\ \E url \in CachedUrls(rom) \cup NextUrl(rom) : \E len \in RomSizes :
       rom' = [RomCacheSet(rom, url, len) EXCEPT
                 !.fresh = IF url \in NextUrl(rom) THEN @ + 1 ELSE @]
  /\ UNCHANGED <<eng, outbox, delivered, obs, audio, loop, net, relay, cli, demo, ring, app>>

NextRom == RomClock \/ RomRead \/ RomInsert
SpecRom == Init /\ [][NextRom]_vars

RECURSIVE SumSizes(_)
SumSizes(q) == IF q = <<>> THEN 0 ELSE Head(q).size + SumSizes(Tail(q))

\* the entries of c other than url's that are gone in d, and those that stayed
Evicted(c, d, url) == {i \in 1..Len(c.cache) :
                         c.cache[i].url \notin CachedUrls(d) \cup {url}}
Survivors(c, d, url) == {i \in 1..Len(c.cache) :
                           c.cache[i].url \in CachedUrls(d) \ {url}}

\* C27: the sizes of the cached entries never add up to more than 64 MB, and
\* the entries an insertion removes were all read or inserted longer ago
\* than every entry it keeps.
C27_LruWithin64MB ==
  /\ [](SumSizes(rom.cache) <= ROM_CACHE_MAX_BYTES)
  /\ [][\A url \in Urls : \A len \in RomSizes :
          (rom.ops < MaxRomOps /\ rom'.ops = rom.ops + 1
           /\ rom'.cache = RomCacheSet(rom, url, len).cache) =>
            \A i \in Evicted(rom, rom', url) : \A j \in Survivors(rom, rom', url) :
              rom.cache[i].used < rom.cache[j].used]_vars

\* the sizes of the cached entries never add up to more than 64 MB
C27_Within64MB == SumSizes(rom.cache) <= ROM_CACHE_MAX_BYTES

\* ------------------------------------------------------------------------
\* DemoGame under steps, snapshots and restores
\* ------------------------------------------------------------------------
MaxStepsDemo == 3
MaxSaves == 2
MaxWarm == 80
DemoInputs == {0, UP, DOWN}
\* the snapshots begin in a new game, shortly before the ball reaches the
\* right paddle, or shortly before it leaves the field on the right
WarmStops == {0, MaxWarm - 14, MaxWarm}

\* both games step with the input that is held: nothing, or the right
\* paddle down
DemoWarms ==
  /\ demo.steps = 0 /\ demo.saves = 0
  /\ demo.warm < MaxWarm
  /\ \E inp \in {<<0, 0>>, <<0, DOWN>>} :
       /\ demo.held \in {<<>>, inp}
       /\ demo' = [demo EXCEPT
                     !.heap = DemoStep(DemoStep(demo.heap, demo.a, inp), demo.b, inp),
                     !.warm = @ + 1, !.held = inp]
  /\ UNCHANGED <<eng, outbox, delivered, obs, audio, loop, net, relay, cli, rom, ring, app>>

\* both games step with the same inputs
DemoSteps ==
  /\ demo.warm \in WarmStops
  /\ demo.steps < MaxStepsDemo
  /\ \E i1 \in DemoInputs : \E i2 \in DemoInputs :
       demo' = [demo EXCEPT
                  !.heap = DemoStep(DemoStep(demo.heap, demo.a, <<i1, i2>>),
                                    demo.b, <<i1, i2>>),
                  !.steps = @ + 1]
  /\ UNCHANGED <<eng, outbox, delivered, obs, audio, loop, net, relay, cli, rom, ring, app>>

\* the first game's saveState(); the snapshot is kept
DemoSaves ==
  /\ demo.warm \in WarmStops
  /\ demo.saves < MaxSaves
  /\ LET h == SaveState(demo.heap, demo.a)
     IN  demo' = [demo EXCEPT !.heap = h, !.kept = Len(h),
                              !.keptValue = SnapValue(h, Len(h)), !.saves = @ + 1]
  /\ UNCHANGED <<eng, outbox, delivered, obs, audio, loop, net, relay, cli, rom, ring, app>>

\* the first game's saveState() followed by loadState of that snapshot,
\* which is kept
DemoRoundTrip ==
  /\ demo.warm \in WarmStops
  /\ demo.saves < MaxSaves
  /\ LET h1 == SaveState(demo.heap, demo.a)
         h2 == LoadState(h1, Len(h1))
     IN  demo' = [demo EXCEPT !.heap = h2, !.a = Len(h2), !.kept = Len(h1),
                              !.keptValue = SnapValue(h1, Len(h1)),
                              !.saves = @ + 1, !.trips = @ + 1]
  /\ UNCHANGED <<eng, outbox, delivered, obs, audio, loop, net, relay, cli, rom, ring, app>>

NextDemo == DemoWarms \/ DemoSteps \/ DemoSaves \/ DemoRoundTrip
SpecDemo == Init /\ [][NextDemo]_vars

\* C28: a game that has saved and loaded its state gives at every later
\* frame the snapshot of the game that has not, and a snapshot that is kept
\* holds what it held when it was made, whatever steps came after.
C28_SaveLoadIsIdentity ==
  /\ SnapValue(demo.heap, demo.a) = SnapValue(demo.heap, demo.b)
  /\ demo.kept # Null => SnapValue(demo.heap, demo.kept) = demo.keptValue

\* after a save followed by a load the ball was hit by a paddle or left the
\* field, and the kept snapshot is of an earlier frame
C28_Witness ==
  /\ demo.trips > 0
  /\ demo.kept # Null
  /\ demo.heap[demo.kept].frame < demo.heap[demo.a].frame
  /\ \/ demo.heap[demo.a].hitFlash > demo.heap[demo.kept].hitFlash
     \/ demo.heap[demo.a].rngState # demo.heap[demo.kept].rngState

\* ------------------------------------------------------------------------
\* The rollback step of a tick
\* ------------------------------------------------------------------------
\* C31 as stated: a tick that starts with a pending target at or below the
\* watermark loads no snapshot, re-steps no frame and leaves the rollback
\* count alone; it clears the target and steps the current frame.
C31_NoRollbackAtOrBelowWatermark ==
  [][(/\ IsTick(LocalId)
      /\ L.rollbackTo # Null
      /\ L.rollbackTo <= L.confirmedFrame) =>
        /\ L'.stats.rollbacks = L.stats.rollbacks
        /\ L'.rollbackTo = Null
        /\ L'.frame = L.frame + 1
        /\ Len(audio'[LocalId].steps) = 1]_vars

\* C31 as the code has it: a tick that starts with a pending target at or
\* below the watermark clears the target and steps the current frame; it
\* executes the rollback exactly when the target is below current-frame and
\* its snapshot is held, watermark or not: then it loads that snapshot,
\* re-steps the frames from the target to current-frame - 1 with the inputs
\* gathered again and counts one rollback, and otherwise it re-steps
\* nothing and counts nothing.
C31_RollbackAtWatermarkExecuted ==
  [][(/\ IsTick(LocalId)
      /\ L.rollbackTo # Null
      /\ L.rollbackTo <= L.confirmedFrame) =>
        /\ L'.rollbackTo = Null
        /\ L'.frame = L.frame + 1
        /\ IF L.rollbackTo < L.frame /\ Has(L.stateHistory, L.rollbackTo)
             THEN /\ L'.stats.rollbacks = L.stats.rollbacks + 1
                  /\ Len(audio'[LocalId].steps) = L.frame - L.rollbackTo + 1
                  /\ \A f \in L.rollbackTo..(L.frame - 1) :
                       L'.emulator[f + 1] = GatherInputs(L.confirmedInputs, f)
             ELSE /\ L'.stats.rollbacks = L.stats.rollbacks
                  /\ Len(audio'[LocalId].steps) = 1]_vars

\* the last tick started with its target at the watermark and rolled back
\* to it
C31_Witness ==
  /\ obs[LocalId].ticked
  /\ obs[LocalId].rolledTo # Null
  /\ obs[LocalId].rolledTo <= obs[LocalId].cfAtRoll
  /\ L.stats.rollbacks >= 1

\* ------------------------------------------------------------------------
\* SpecHold: one engine that reads 0 next to a peer that sends a few inputs
\* and is silent for longer than the predictor looks back
\* ------------------------------------------------------------------------
MaxFrameHold == 20
MaxIngestHold == 1

TickHold ==
  /\ eng[LocalId].frame < MaxFrameHold
  /\ DoTick(LocalId, DefaultReadInput)
  /\ UNCHANGED delivered

ReceiveHold ==
  /\ obs[LocalId].ingests < MaxIngestHold
  /\ \E f \in PeerFrames(MaxFrameHold), v \in Inputs :
       /\ DeliveredValue(LocalId, f, RemoteId) = {}
       /\ DoDeliver(LocalId, f, RemoteId, v)

NextHold == TickHold \/ ReceiveHold
SpecHold == Init /\ [][NextHold]_vars

\* the frames of the predictor's window for forFrame that hold an input of
\* playerId
HeldFrames(ci, playerId, forFrame) ==
  {g \in Max2(0, forFrame - 2 * MAX_ROLLBACK)..(forFrame - 1) :
     Has(ci, g) /\ Has(ci[g], playerId)}

\* the store without its entries at forFrame and above
StoreBelow(ci, forFrame) == [g \in {h \in DOMAIN ci : h < forFrame} |-> ci[g]]

\* the frames around current-frame
NearFrames(e) == {f \in (e.frame - INPUT_DELAY)..(e.frame + INPUT_DELAY) : f >= 0}

LinkedFrames(e) ==
  {f \in DOMAIN e.stateHistory :
     /\ Has(e.usedInputs, f)
     /\ f + 1 <= e.frame - 1
     /\ Has(e.stateHistory, f + 1)}

\* the history of e is a chain of steps that ends in the simulator's state
SelfConsistent(e) ==
  /\ \A f \in LinkedFrames(e) :
       EmuStep(EmuLoadState(e.stateHistory[f]), e.usedInputs[f])
         = e.stateHistory[f + 1]
  /\ (/\ e.frame >= 1
      /\ Has(e.stateHistory, e.frame - 1)
      /\ Has(e.usedInputs, e.frame - 1)) =>
       /\ EmuStep(EmuLoadState(e.stateHistory[e.frame - 1]),
                  e.usedInputs[e.frame - 1]) = e.emulator

C35_ReceiveDefersSimulation ==
  /\ [](\A f \in AllFrames, v \in Inputs :
          ReceiveRemoteInput(L, f, LocalId, v) = L)
  /\ [][obs'[LocalId].ingests = obs[LocalId].ingests + 1 =>
          /\ Cardinality({q \in DOMAIN L'.lastReceivedFrame :
                            \/ ~ Has(L.lastReceivedFrame, q)
                            \/ L'.lastReceivedFrame[q] # L.lastReceivedFrame[q]}) <= 1
          /\ L'.emulator = L.emulator
          /\ L'.usedInputs = L.usedInputs
          /\ L'.stateHistory = L.stateHistory
          /\ L'.frame = L.frame
          /\ L'.stats = L.stats
          /\ L'.localPlayerId = L.localPlayerId
          /\ audio' = audio
          /\ outbox' = outbox]_vars

\* the last step was an ingest that scheduled a rollback, stored the input
\* and raised the sender's receive watermark and the confirmed frame, after
\* at least two ticks
C35_Witness ==
  /\ ~ obs[LocalId].ticked
  /\ obs[LocalId].ingests = 1
  /\ L.frame >= 2
  /\ L.rollbackTo = 1
  /\ L.confirmedFrame = 1
  /\ L.lastReceivedFrame[RemoteId] = 1
  /\ L.confirmedInputs[1][RemoteId] = 1
  /\ L.stats.rollbacks = 0

\* the engine after the rollback that is due in e
RolledBack(e) == PerformRollback(e, e.rollbackTo)

\* C36: the rollback that is due leaves confirmed-inputs, the receive
\* watermarks, the confirmed-frame watermark, current-frame, the pending
\* target and the frame and watermark of the statistics as they were, and
\* the snapshot and used inputs of every frame below the target; it holds
\* history for the same frames as before; and a tick that rolls back sends
\* one message, the local input of its queue frame.
C36_RollbackTouchesOnlyResteppedFrames ==
  /\ [](RollbackDue(L) =>
          LET r == RolledBack(L)
          IN  /\ r.confirmedInputs = L.confirmedInputs
              /\ r.lastReceivedFrame = L.lastReceivedFrame
              /\ r.confirmedFrame = L.confirmedFrame
              /\ r.frame = L.frame
              /\ r.rollbackTo = L.rollbackTo
              /\ r.localPlayerId = L.localPlayerId
              /\ r.stats.frame = L.stats.frame
              /\ r.stats.confirmedFrame = L.stats.confirmedFrame
              /\ DOMAIN r.stateHistory = DOMAIN L.stateHistory
              /\ DOMAIN r.usedInputs = DOMAIN L.usedInputs
              /\ \A f \in DOMAIN L.stateHistory :
                   f < L.rollbackTo =>
                     /\ r.stateHistory[f] = L.stateHistory[f]
                     /\ r.usedInputs[f] = L.usedInputs[f])
  /\ [][(RollbackDue(L) /\ L'.frame = L.frame + 1) =>
          /\ Len(outbox'[LocalId]) = Len(outbox[LocalId]) + 1
          /\ outbox'[LocalId][Len(outbox'[LocalId])].frame = L.frame + INPUT_DELAY
          /\ SubSeq(outbox'[LocalId], 1, Len(outbox[LocalId])) = outbox[LocalId]]_vars

\* a rollback to a target above the oldest held frame is due, and it will
\* change the simulator's state and the used inputs of the target
C36_Witness ==
  /\ RollbackDue(L)
  /\ \E f \in DOMAIN L.stateHistory : f < L.rollbackTo
  /\ RolledBack(L).emulator # L.emulator
  /\ RolledBack(L).usedInputs[L.rollbackTo] # L.usedInputs[L.rollbackTo]
  /\ RolledBack(L).stats.rollbacks = L.stats.rollbacks + 1

\* ------------------------------------------------------------------------
\* The byte counter of the ROM cache
\* ------------------------------------------------------------------------
\* C39: romCacheTotalBytes is the sum of the sizes of the cached entries.
C39_TotalIsSumOfSizes == rom.total = SumSizes(rom.cache)

\* ------------------------------------------------------------------------
\* SpecRing: one SNESAudioProcessor under sample messages of any length and
\* process() calls of any quantum
\* ------------------------------------------------------------------------
MaxRingOps == 4
\* the numbers of pairs of a message: none, a few, a ring more or less, and
\* more than two rings
PairCounts == {0, 1, 2, RingSize - 2, RingSize - 1, RingSize, RingSize + 1,
               2 * RingSize + 1}
\* the lengths of data.samples: the pairs, and one with an unpaired sample
SampleLengths == {2 * n : n \in PairCounts} \cup {3}
\* the lengths of an output channel
Quanta == {1, 2, RingSize \div 2 + 1}

RingOthers == <<eng, outbox, delivered, obs, audio, loop, net, relay, cli, rom, demo, app>>

RingConstructs ==
  /\ ~ ring.made
  /\ \E drc \in BOOLEAN : ring' = NewRing(drc)
  /\ UNCHANGED RingOthers

RingMessage ==
  /\ ring.made
  /\ ring.ops < MaxRingOps
  /\ \E len \in SampleLengths : ring' = PortOnMessage(ring, len)
  /\ UNCHANGED RingOthers

RingProcess ==
  /\ ring.made
  /\ ring.ops < MaxRingOps
  /\ \E n \in Quanta : ring' = Process(ring, n)
  /\ UNCHANGED RingOthers

NextRing == RingConstructs \/ RingMessage \/ RingProcess
SpecRing == Init /\ [][NextRing]_vars

\* the pairs process() can read, oldest first
Readable(r) == [i \in 1..Avail(r) |-> r.buf[Mask(r.rd + i - 1) + 1]]

\* C40: the pairs between the read head and the write head are the pairs
\* that arrived last, in the order of their arrival; a message of n pairs
\* leaves min(size - 1, buffered + n) pairs buffered, so an overflowing one
\* leaves the size - 1 most recent; and process() moves the read head by no
\* more than the number of buffered pairs and leaves the write head alone.
C40_WriteNeverLapsRead ==
  /\ [](ring.made =>
          /\ Avail(ring) <= RingSize - 1
          /\ Avail(ring) <= ring.written
          /\ Readable(ring) =
               [i \in 1..Avail(ring) |-> ring.written - Avail(ring) + i])
  /\ [][(ring'.ops = ring.ops + 1 /\ ring'.last = "message") =>
          /\ ring'.written = ring.written + ring'.lastN
          /\ Avail(ring') = Min2(RingSize - 1, Avail(ring) + ring'.lastN)]_vars
  /\ [][(ring'.ops = ring.ops + 1 /\ ring'.last = "process") =>
          /\ ring'.wr = ring.wr
          /\ Mask(ring'.rd - ring.rd) <= Avail(ring)
          /\ Avail(ring') = Avail(ring) - Mask(ring'.rd - ring.rd)]_vars

\* the last message was longer than the ring and arrived when pairs were
\* buffered, and a process() call has since read the oldest pairs left
C40_Witness ==
  /\ ring.made
  /\ ring.lastN > RingSize
  /\ ring.written > ring.lastN
  /\ ring.last = "process"
  /\ Avail(ring) \in 1..(RingSize - 2)
  /\ ring.out # <<>>
  /\ ring.out[1] # 0

\* ------------------------------------------------------------------------
\* SpecApp: one client between game-started and rematch messages, with the
\* input messages of its peer
\* ------------------------------------------------------------------------
MaxAppMatches == 2
MaxAppInputs == 3
MaxAppFrame == 2
GameTypes == {"pong", "nes"}
AppFrames == INPUT_DELAY..(INPUT_DELAY + MaxAppFrame)

AppOthers == <<eng, outbox, delivered, obs, audio, loop, net, relay, cli, rom, demo, ring>>

AppGameStarted ==
  /\ ~ app.running
  /\ app.match < MaxAppMatches
  /\ \E gameType \in GameTypes : app' = OnGameStarted(app, gameType)
  /\ UNCHANGED AppOthers

AppRomLoaded ==
  /\ \E m \in app.loads : app' = RomLoaded(app, m)
  /\ UNCHANGED AppOthers

AppRomFailed ==
  /\ \E m \in app.loads : app' = RomFailed(app, m)
  /\ UNCHANGED AppOthers

AppRematch ==
  /\ app.running
  /\ app' = OnRematch(app)
  /\ UNCHANGED AppOthers

AppInput ==
  /\ app.running
  /\ Len(app.received) < MaxAppInputs
  /\ \E f \in AppFrames, v \in Inputs :
       app' = OnRemoteInput(app, [frame |-> f, playerId |-> RemoteId, input |-> v])
  /\ UNCHANGED AppOthers

NextApp == AppGameStarted \/ AppRomLoaded \/ AppRomFailed \/ AppRematch \/ AppInput
SpecApp == Init /\ [][NextApp]_vars

\* C38: between a game-started message and the next rematch, the input
\* messages received so far are the calls of receiveRemoteInput on the engine
\* of that match, each once and in the order of arrival.
C38_NoRemoteInputLost ==
  (app.running /\ app.received # <<>>) =>
    /\ app.engine # <<>>
    /\ app.engine[1].match = app.match
    /\ app.engine[1].passed = app.received

\* ------------------------------------------------------------------------
\* SpecLive: one engine whose ticks keep running, next to a peer whose
\* inputs arrive in the order they were sent until the peer leaves.  While
\* the peer is there its inputs keep up: the engine is never more than
\* MaxLead frames past the last frame received, and the peer never more than
\* MaxAhead frames past the engine's queue frame.
\* ------------------------------------------------------------------------
MaxFrameLive == 6
MaxLead == 1
MaxAhead == 1

PeerHere == net[RemoteId].connected
LastFrom(e, p) == e.lastReceivedFrame[p]

TickLive ==
  /\ eng[LocalId].frame < MaxFrameLive
  /\ PeerHere => eng[LocalId].frame - LastFrom(eng[LocalId], RemoteId) <= MaxLead
  /\ DoTick(LocalId, DefaultReadInput)
  /\ UNCHANGED delivered

\* the next input of the peer arrives: its first is for frame INPUT_DELAY
DeliverLive ==
  /\ PeerHere
  /\ LET f == Max2(INPUT_DELAY, LastFrom(eng[LocalId], RemoteId) + 1)
     IN  /\ f <= eng[LocalId].frame + INPUT_DELAY + MaxAhead
         /\ f <= MaxFrameLive + INPUT_DELAY
         /\ \E v \in Inputs : DoDeliver(LocalId, f, RemoteId, v)

\* the peer's socket closes: the relay tells the others player-left, which
\* the application does not pass on to the engine
PeerLeaves ==
  /\ PeerHere
  /\ net' = [net EXCEPT ![RemoteId] = OnClose(@)]
  /\ UNCHANGED <<eng, outbox, delivered, obs, audio, loop, relay, cli, rom, demo, ring, app>>

NextLive == TickLive \/ DeliverLive \/ PeerLeaves

\* the guard of TickLive, and the message a tick hands to _sendInput, which
\* no other step produces
TickEnabled ==
  /\ eng[LocalId].frame < MaxFrameLive
  /\ PeerHere => eng[LocalId].frame - LastFrom(eng[LocalId], RemoteId) <= MaxLead
TickSends ==
  /\ TickEnabled
  /\ outbox' = [outbox EXCEPT ![LocalId] =
                  Append(@, SentByTick(eng[LocalId], DefaultReadInput))]

\* _loop reschedules itself with requestAnimationFrame for as long as the
\* engine runs, so ticks keep coming; the socket keeps delivering the peer's
\* messages while the peer is connected
SpecLive ==
  /\ Init /\ [][NextLive]_vars
  /\ WF_outbox(TickSends) /\ WF_vars(DeliverLive)

\* the frames that the ticks and deliveries within the bounds confirm
LiveFrames == 0..(MaxFrameLive - MaxLead - 3)

\* frame n has been stepped and its history entries are gone
Pruned(e, n) ==
  /\ e.frame > n
  /\ ~ Has(e.stateHistory, n)
  /\ ~ Has(e.usedInputs, n)
  /\ ~ Has(e.confirmedInputs, n)

\* every frame of LiveFrames lies below the watermark and is pruned
AllConfirmed(e) ==
  \A n \in LiveFrames : e.confirmedFrame > n /\ Pruned(e, n)

\* C37: when the peer stays, the confirmed-frame watermark eventually
\* exceeds every frame n and the entries of n in state-history, used-inputs
\* and confirmed-inputs are eventually gone for good; and the watermark is
\* never above the last frame received from the peer, whether the peer is
\* still there or has left.
C37_ConfirmationProgress ==
  /\ <>[](PeerHere => AllConfirmed(L))
  /\ [](\A p \in DOMAIN L.lastReceivedFrame :
          L.confirmedFrame <= LastFrom(L, p))

\* the peer is still there, the watermark has passed frame 2, whose entries
\* are gone; frame 2 was stepped with a prediction and re-stepped
C37_Witness ==
  /\ PeerHere
  /\ L.confirmedFrame > INPUT_DELAY
  /\ Pruned(L, INPUT_DELAY)
  /\ L.stats.rollbacks >= 1

\* the peer has left and the engine has run on: the watermark is where the
\* peer's last input left it, more than MaxLead frames behind
C37_DepartedWitness ==
  /\ ~ PeerHere
  /\ L.confirmedFrame >= INPUT_DELAY
  /\ L.confirmedFrame = LastFrom(L, RemoteId)
  /\ L.frame > L.confirmedFrame + MaxLead + 1

====
